---- MODULE Spec2Model ----
(***************************************************************************)
(* The aurum tool chain: parser, semantic analyzer, code generator and    *)
(* stack virtual machine, driven by aurumCompiler.compile / execute.      *)
(* A behaviour is a session of calls: each compiles a source text (or      *)
(* takes an instruction list as load_program() gets it) and runs it        *)
(* through the VM's fetch-decode-execute loop, one instruction per step.   *)
(* The classes are taken under the names compiler.py imports them by       *)
(* (parser.py spells its class AurumParser); error messages are written    *)
(* without accents and without the values they interpolate.                *)
(***************************************************************************)
EXTENDS Integers, Sequences, FiniteSets, TLC

(***************************************************************************)
(* Runtime values.  Every Python value the VM handles is one record:       *)
(*   k = "int" | "float" | "str" | "bool" | "none"                         *)
(* an int is n, a float is the fraction n/d in lowest terms (d > 0), a     *)
(* bool is n = 1 / n = 0, a string is s.                                   *)
(***************************************************************************)
IntV(i) == [k |-> "int", n |-> i, d |-> 1, s |-> ""]

StrV(t) == [k |-> "str", n |-> 0, d |-> 1, s |-> t]

BoolV(b) == [k |-> "bool", n |-> IF b THEN 1 ELSE 0, d |-> 1, s |-> ""]

NoneV == [k |-> "none", n |-> 0, d |-> 1, s |-> ""]

Abs(i) == IF i < 0 THEN -i ELSE i

RECURSIVE Gcd(_, _)
Gcd(a, b) == IF b = 0 THEN a ELSE Gcd(b, a % b)

\* a float given as a fraction, reduced
FloatV(num, den) ==
    LET g == Gcd(Abs(num), Abs(den))
        sg == IF den < 0 THEN -1 ELSE 1
    IN [k |-> "float", n |-> sg * (num \div g), d |-> sg * (den \div g), s |-> ""]

(***************************************************************************)
(* Tokens, as tokenize() hands them to the parser once whitespace and      *)
(* comments are dropped.  value is the token text, for a STRING token the  *)
(* text between its quotes (the parser strips them); an INTEGER or FLOAT   *)
(* token carries its digits (digits before the point, frac after it).      *)
(***************************************************************************)
Tok(t, v) == [type |-> t, value |-> v, digits |-> <<>>, frac |-> <<>>]

TInt(ds) == [type |-> "INTEGER", value |-> "", digits |-> ds, frac |-> <<>>]

TFloat(ds, fs) == [type |-> "FLOAT", value |-> "", digits |-> ds, frac |-> fs]

\* int(text) of a \d+ token
RECURSIVE DecimalValue(_)
DecimalValue(ds) ==
    IF ds = <<>> THEN 0
    ELSE 10 * DecimalValue(SubSeq(ds, 1, Len(ds) - 1)) + ds[Len(ds)]

RECURSIVE Pow10(_)
Pow10(e) == IF e = 0 THEN 1 ELSE 10 * Pow10(e - 1)

(***************************************************************************)
(* AST nodes (parser.py dataclasses).  has* flags stand for "is not None". *)
(***************************************************************************)
NoNode == [kind |-> "None"]

Literal(v, t) == [kind |-> "Literal", value |-> v, type |-> t]

Variable(nm) == [kind |-> "Variable", name |-> nm]

BinaryOperation(l, op, r) ==
    [kind |-> "BinaryOperation", left |-> l, operator |-> op, right |-> r]

UnaryOperation(op, e) == [kind |-> "UnaryOperation", operator |-> op, operand |-> e]

FunctionCall(nm, args) == [kind |-> "FunctionCall", name |-> nm, arguments |-> args]

VariableDeclaration(nm, t, hv, v) ==
    [kind |-> "VariableDeclaration", name |-> nm, type |-> t, hasValue |-> hv, value |-> v]

Assignment(nm, v) == [kind |-> "Assignment", name |-> nm, value |-> v]

IfStatement(c, th, el, he, eb) ==
    [kind |-> "IfStatement", condition |-> c, then_body |-> th, elif_parts |-> el,
     hasElse |-> he, else_body |-> eb]

ElifPart(c, b) == [condition |-> c, body |-> b]

WhileStatement(c, b) == [kind |-> "WhileStatement", condition |-> c, body |-> b]

ForStatement(hi, i, hc, c, hu, u, b) ==
    [kind |-> "ForStatement", hasInit |-> hi, init |-> i, hasCondition |-> hc,
     condition |-> c, hasUpdate |-> hu, update |-> u, body |-> b]

ReturnStatement(hv, v) == [kind |-> "ReturnStatement", hasValue |-> hv, value |-> v]

BreakStatement == [kind |-> "BreakStatement"]

ContinueStatement == [kind |-> "ContinueStatement"]

ExpressionStatement(e) == [kind |-> "ExpressionStatement", expression |-> e]

Parameter(nm, t) == [name |-> nm, type |-> t]

Function(nm, ps, rt, b) ==
    [name |-> nm, parameters |-> ps, return_type |-> rt, body |-> b]

(***************************************************************************)
(* The recursive-descent parser.  A position is a 1-based index into the   *)
(* token list; every rule returns [ok, pos, node], ok = FALSE standing for *)
(* a raised ParseError.                                                    *)
(***************************************************************************)
POk(p, nd) == [ok |-> TRUE, pos |-> p, node |-> nd]

PErr(p) == [ok |-> FALSE, pos |-> p, node |-> NoNode]

_is_at_end(toks, p) == p > Len(toks) \/ toks[p].type = "EOF"

_check(toks, p, t) == ~_is_at_end(toks, p) /\ toks[p].type = t

\* the position after _advance(); the token it returns is toks[that - 1]
_advance(toks, p) == IF _is_at_end(toks, p) THEN p ELSE p + 1

TypeNames == {"INT", "FLOAT_TYPE", "STRING_TYPE", "BOOL_TYPE"}

\* the token types each binary precedence level matches, loosest first
LevelOps(l) ==
    CASE l = 1 -> {"OR"}
      [] l = 2 -> {"AND"}
      [] l = 3 -> {"EQUAL", "NOT_EQUAL"}
      [] l = 4 -> {"GREATER_THAN", "GREATER_EQUAL", "LESS_THAN", "LESS_EQUAL"}
      [] l = 5 -> {"PLUS", "MINUS"}
      [] OTHER -> {"MULTIPLY", "DIVIDE", "MODULO"}

\* Rest(v), v being evaluated first: a statement that has run before the next
\* one starts
Let(v, Rest(_)) == CHOOSE r \in {Rest(x) : x \in {v}} : TRUE

\* the rest of a rule once a sub-rule returned r; a ParseError propagates
Then(r, Rest(_)) == IF r.ok THEN Rest(r) ELSE r

\* _consume(t) after the sub-rule that returned r
Consume(toks, r, t) ==
    IF r.ok
    THEN IF _check(toks, r.pos, t) THEN POk(r.pos + 1, r.node) ELSE PErr(r.pos)
    ELSE r

RECURSIVE _parse_binary(_, _, _)
RECURSIVE LevelLoops(_, _, _, _)
RECURSIVE _parse_binary_rest(_, _, _, _)
RECURSIVE _parse_unary(_, _)
RECURSIVE _parse_call(_, _)
RECURSIVE _parse_arguments(_, _, _)
RECURSIVE _parse_primary(_, _)

_parse_expression(toks, p) == _parse_binary(1, toks, p)

\* _parse_or (l = 1) .. _parse_factor (l = 6), _parse_unary being l = 7.  Each
\* method takes its first operand from the method of the next level and then
\* runs its own while loop: the calls go down to _parse_unary before any loop
\* runs, and the loops of the levels 6 down to l then run on what it returned.
_parse_binary(l, toks, p) == LevelLoops(6, l, toks, _parse_unary(toks, p))

\* the while loops of the levels k down to l on the operand r
LevelLoops(k, l, toks, r) ==
    IF r.ok /\ k >= l
    THEN LevelLoops(k - 1, l, toks, _parse_binary_rest(k, toks, r.pos, r.node))
    ELSE r

\* while self._match(<operators of the level>): expr = BinaryOperation(...)
_parse_binary_rest(l, toks, p, left) ==
    IF ~_is_at_end(toks, p) /\ toks[p].type \in LevelOps(l)
    THEN Then(_parse_binary(l + 1, toks, p + 1),
              LAMBDA r : _parse_binary_rest(l, toks, r.pos,
                                            BinaryOperation(left, toks[p].value, r.node)))
    ELSE POk(p, left)

_parse_unary(toks, p) ==
    IF _check(toks, p, "NOT") \/ _check(toks, p, "MINUS")
    THEN Then(_parse_unary(toks, p + 1),
              LAMBDA r : POk(r.pos, UnaryOperation(toks[p].value, r.node)))
    ELSE _parse_call(toks, p)

\* the argument list after the first argument: while self._match(COMMA)
_parse_arguments(toks, p, acc) ==
    IF _check(toks, p, "COMMA")
    THEN Then(_parse_expression(toks, p + 1),
              LAMBDA r : _parse_arguments(toks, r.pos, Append(acc, r.node)))
    ELSE POk(p, acc)

\* the arguments and the ')' of a call whose '(' is before position q
CallArguments(toks, q) ==
    Consume(toks,
            IF _check(toks, q, "RPAREN") THEN POk(q, <<>>)
            ELSE Then(_parse_expression(toks, q),
                      LAMBDA a : _parse_arguments(toks, a.pos, <<a.node>>)),
            "RPAREN")

_parse_call(toks, p) ==
    Then(_parse_primary(toks, p),
         LAMBDA e :
            IF ~_check(toks, e.pos, "LPAREN") THEN e
            ELSE IF e.node.kind # "Variable" THEN PErr(e.pos)
            ELSE Then(CallArguments(toks, e.pos + 1),
                      LAMBDA args : POk(args.pos, FunctionCall(e.node.name, args.node))))

\* the branches test one token for different types: at most one of them applies
_parse_primary(toks, p) ==
    CASE _check(toks, p, "BOOLEAN") ->
            POk(p + 1, Literal(BoolV(toks[p].value = "true"), "bool"))
      [] _check(toks, p, "INTEGER") ->
            POk(p + 1, Literal(IntV(DecimalValue(toks[p].digits)), "int"))
      [] _check(toks, p, "FLOAT") ->
            POk(p + 1, Literal(FloatV(DecimalValue(toks[p].digits \o toks[p].frac),
                                      Pow10(Len(toks[p].frac))), "float"))
      [] _check(toks, p, "STRING") -> POk(p + 1, Literal(StrV(toks[p].value), "string"))
      [] _check(toks, p, "IDENTIFIER") -> POk(p + 1, Variable(toks[p].value))
      [] _check(toks, p, "READ") ->
            IF _check(toks, p + 1, "LPAREN") /\ _check(toks, p + 2, "RPAREN")
            THEN POk(p + 3, FunctionCall("read", <<>>))
            ELSE PErr(p + 1)
      [] _check(toks, p, "LPAREN") ->
            Consume(toks, _parse_expression(toks, p + 1), "RPAREN")
      [] OTHER -> PErr(p)

RECURSIVE _parse_block(_, _, _)
RECURSIVE _parse_statement(_, _)
RECURSIVE _parse_elif_parts(_, _, _)

_parse_block(toks, p, acc) ==
    IF _check(toks, p, "RBRACE") \/ _is_at_end(toks, p) THEN POk(p, acc)
    ELSE Then(_parse_statement(toks, p),
              LAMBDA r : _parse_block(toks, r.pos, Append(acc, r.node)))

\* consume '{', a block, consume '}'
BracedBlock(toks, p) ==
    IF ~_check(toks, p, "LBRACE") THEN PErr(p)
    ELSE Consume(toks, _parse_block(toks, p + 1, <<>>), "RBRACE")

\* consume '(', an expression, consume ')'
ParenExpression(toks, p) ==
    IF ~_check(toks, p, "LPAREN") THEN PErr(p)
    ELSE Consume(toks, _parse_expression(toks, p + 1), "RPAREN")

_check_variable_declaration(toks, p) ==
    ~_is_at_end(toks, p) /\ toks[p].type \in TypeNames

_check_assignment(toks, p) ==
    /\ p + 1 <= Len(toks)
    /\ _check(toks, p, "IDENTIFIER")
    /\ toks[p + 1].type = "ASSIGN"

_parse_variable_declaration(toks, p) ==
    LET q == _advance(toks, p)
        type_name == toks[q - 1].value
    IN IF ~_check(toks, q, "IDENTIFIER") THEN PErr(q)
       ELSE IF _check(toks, q + 1, "ASSIGN")
       THEN Then(_parse_expression(toks, q + 2),
                 LAMBDA v : POk(v.pos, VariableDeclaration(toks[q].value, type_name,
                                                           TRUE, v.node)))
       ELSE POk(q + 1, VariableDeclaration(toks[q].value, type_name, FALSE, NoNode))

_parse_assignment(toks, p) ==
    IF ~_check(toks, p, "IDENTIFIER") THEN PErr(p)
    ELSE IF ~_check(toks, p + 1, "ASSIGN") THEN PErr(p + 1)
    ELSE Then(_parse_expression(toks, p + 2),
              LAMBDA v : POk(v.pos, Assignment(toks[p].value, v.node)))

_parse_expression_statement(toks, p) ==
    Then(_parse_expression(toks, p), LAMBDA e : POk(e.pos, ExpressionStatement(e.node)))

\* while self._match(ELIF): ...
_parse_elif_parts(toks, p, acc) ==
    IF ~_check(toks, p, "ELIF") THEN POk(p, acc)
    ELSE Then(ParenExpression(toks, p + 1), LAMBDA c :
         Then(BracedBlock(toks, c.pos), LAMBDA b :
         _parse_elif_parts(toks, b.pos, Append(acc, ElifPart(c.node, b.node)))))

\* p is the position after the 'if'
_parse_if_statement(toks, p) ==
    Then(ParenExpression(toks, p), LAMBDA c :
    Then(BracedBlock(toks, c.pos), LAMBDA th :
    Then(_parse_elif_parts(toks, th.pos, <<>>), LAMBDA el :
    IF _check(toks, el.pos, "ELSE")
    THEN Then(BracedBlock(toks, el.pos + 1), LAMBDA eb :
              POk(eb.pos, IfStatement(c.node, th.node, el.node, TRUE, eb.node)))
    ELSE POk(el.pos, IfStatement(c.node, th.node, el.node, FALSE, <<>>)))))

\* p is the position after the 'while'
_parse_while_statement(toks, p) ==
    Then(ParenExpression(toks, p), LAMBDA c :
    Then(BracedBlock(toks, c.pos), LAMBDA b :
    POk(b.pos, WhileStatement(c.node, b.node))))

\* the init clause of a for and its ';' (node "None" when it is empty)
ForInit(toks, p) ==
    Consume(toks,
            IF _check(toks, p, "SEMICOLON") THEN POk(p, NoNode)
            ELSE IF _check_variable_declaration(toks, p)
            THEN _parse_variable_declaration(toks, p)
            ELSE _parse_expression_statement(toks, p),
            "SEMICOLON")

ForCondition(toks, p) ==
    Consume(toks,
            IF _check(toks, p, "SEMICOLON") THEN POk(p, NoNode)
            ELSE _parse_expression(toks, p),
            "SEMICOLON")

ForUpdate(toks, p) ==
    Consume(toks,
            IF _check(toks, p, "RPAREN") THEN POk(p, NoNode)
            ELSE IF _check_assignment(toks, p) THEN _parse_assignment(toks, p)
            ELSE _parse_expression_statement(toks, p),
            "RPAREN")

\* p is the position after the 'for'
_parse_for_statement(toks, p) ==
    IF ~_check(toks, p, "LPAREN") THEN PErr(p)
    ELSE Then(ForInit(toks, p + 1), LAMBDA init :
         Then(ForCondition(toks, init.pos), LAMBDA cond :
         Then(ForUpdate(toks, cond.pos), LAMBDA upd :
         Then(BracedBlock(toks, upd.pos), LAMBDA b :
         POk(b.pos, ForStatement(init.node.kind # "None", init.node,
                                 cond.node.kind # "None", cond.node,
                                 upd.node.kind # "None", upd.node, b.node))))))

\* p is the position after the 'return'
_parse_return_statement(toks, p) ==
    IF ~_check(toks, p, "RBRACE") /\ ~_is_at_end(toks, p)
    THEN Then(_parse_expression(toks, p), LAMBDA v : POk(v.pos, ReturnStatement(TRUE, v.node)))
    ELSE POk(p, ReturnStatement(FALSE, NoNode))

\* the branches test one token for different types: at most one of them applies
_parse_statement(toks, p) ==
    CASE _check(toks, p, "IF") -> _parse_if_statement(toks, p + 1)
      [] _check(toks, p, "WHILE") -> _parse_while_statement(toks, p + 1)
      [] _check(toks, p, "FOR") -> _parse_for_statement(toks, p + 1)
      [] _check(toks, p, "RETURN") -> _parse_return_statement(toks, p + 1)
      [] _check(toks, p, "BREAK") -> POk(p + 1, BreakStatement)
      [] _check(toks, p, "CONTINUE") -> POk(p + 1, ContinueStatement)
      [] _check_variable_declaration(toks, p) -> _parse_variable_declaration(toks, p)
      [] _check_assignment(toks, p) -> _parse_assignment(toks, p)
      [] OTHER -> _parse_expression_statement(toks, p)

_parse_parameter(toks, p) ==
    LET q == _advance(toks, p)
    IN IF q = 1 \/ toks[q - 1].type \notin TypeNames THEN PErr(q)
       ELSE IF ~_check(toks, q, "IDENTIFIER") THEN PErr(q)
       ELSE POk(q + 1, Parameter(toks[q].value, toks[q - 1].value))

\* the parameter list after the first parameter: while self._match(COMMA)
RECURSIVE ParseParameters(_, _, _)
ParseParameters(toks, p, acc) ==
    IF _check(toks, p, "COMMA")
    THEN Then(_parse_parameter(toks, p + 1),
              LAMBDA r : ParseParameters(toks, r.pos, Append(acc, r.node)))
    ELSE POk(p, acc)

\* the parameters and the ')' of a function whose '(' is before position p
FunctionParameters(toks, p) ==
    Consume(toks,
            IF _check(toks, p, "RPAREN") THEN POk(p, <<>>)
            ELSE Then(_parse_parameter(toks, p),
                      LAMBDA a : ParseParameters(toks, a.pos, <<a.node>>)),
            "RPAREN")

\* '->' and the return type after the parameter list that ended before position p
ReturnType(toks, p) ==
    IF ~_check(toks, p, "ARROW") THEN PErr(p)
    ELSE LET q == _advance(toks, p + 1)
         IN IF toks[q - 1].type \notin (TypeNames \cup {"VOID"}) THEN PErr(q)
            ELSE POk(q, toks[q - 1].value)

_parse_function(toks, p) ==
    IF ~_check(toks, p, "FUNC") THEN PErr(p)
    ELSE IF ~(_check(toks, p + 1, "IDENTIFIER") \/ _check(toks, p + 1, "MAIN")) THEN PErr(p + 1)
    ELSE IF ~_check(toks, p + 2, "LPAREN") THEN PErr(p + 2)
    ELSE Then(FunctionParameters(toks, p + 3), LAMBDA ps :
         Then(ReturnType(toks, ps.pos), LAMBDA rt :
         Then(BracedBlock(toks, rt.pos), LAMBDA b :
         POk(b.pos, Function(toks[p + 1].value, ps.node, rt.node, b.node)))))

\* while not self._is_at_end(): functions.append(self._parse_function())
RECURSIVE ParseFunctions(_, _, _)
ParseFunctions(toks, p, acc) ==
    IF _is_at_end(toks, p) THEN POk(p, acc)
    ELSE Then(_parse_function(toks, p),
              LAMBDA f : ParseFunctions(toks, f.pos, Append(acc, f.node)))

\* the program must hold a function named main
RequireMain(fs) ==
    IF ~fs.ok \/ \A i \in 1..Len(fs.node) : fs.node[i].name # "main"
    THEN [ok |-> FALSE, functions |-> <<>>]
    ELSE [ok |-> TRUE, functions |-> fs.node]

\* AurumParser.parse: [ok, functions]; ok = FALSE is a ParseError
parse(toks) == RequireMain(ParseFunctions(toks, 1, <<>>))

(***************************************************************************)
(* The semantic analyzer.  Its mutable fields travel as one record:        *)
(*   scopes   the chain of symbol tables, global table first, current_table *)
(*            last (each table's parent is the one before it)               *)
(*   errors   the diagnostics, in the order they are appended               *)
(*   in_loop  the loop flag                                                 *)
(*   fn       current_function                                              *)
(* A type is "int", "float", "string", "bool" or "void"; "" is None.       *)
(***************************************************************************)
Symbol(t, isf, ps, rt) ==
    [found |-> TRUE, type |-> t, is_function |-> isf, parameters |-> ps, return_type |-> rt]

NoSymbol ==
    [found |-> FALSE, type |-> "", is_function |-> FALSE, parameters |-> <<>>,
     return_type |-> ""]

EmptyTable == [nm \in {} |-> NoSymbol]

\* the global table after _agregar_funciones_del_sistema
SystemTable ==
    ("read" :> Symbol("string", TRUE, <<>>, "string"))
    @@ ("print" :> Symbol("void", TRUE, <<Parameter("message", "string")>>, "void"))
    @@ ("write" :> Symbol("void", TRUE, <<Parameter("message", "string")>>, "void"))

\* SymbolTable.lookup from table i outwards
RECURSIVE lookup(_, _, _)
lookup(scopes, i, nm) ==
    IF i = 0 THEN NoSymbol
    ELSE IF nm \in DOMAIN scopes[i] THEN scopes[i][nm]
    ELSE lookup(scopes, i - 1, nm)

Lookup(a, nm) == lookup(a.scopes, Len(a.scopes), nm)

AddError(a, e) == [a EXCEPT !.errors = Append(@, e)]

\* declare replacing a symbol the table already has
declare_replacing(a, nm, sym) ==
    [raised |-> FALSE, a |-> [a EXCEPT !.scopes[Len(a.scopes)] = (nm :> sym) @@ @]]

\* SymbolTable.declare on current_table: [raised, a]
declare(a, nm, sym) ==
    LET top == Len(a.scopes)
    IN IF nm \in DOMAIN a.scopes[top] THEN [raised |-> TRUE, a |-> a]
       ELSE [raised |-> FALSE,
             a |-> [a EXCEPT !.scopes[top] = (nm :> sym) @@ @]]

_tipos_compatibles(tipo_esperado, tipo_actual) == tipo_esperado = tipo_actual

_es_numerico(nombre_tipo) == nombre_tipo \in {"int", "float"}

_obtener_tipo_resultado_numerico(tipo_izquierdo, tipo_derecho) ==
    IF tipo_izquierdo = "float" \/ tipo_derecho = "float" THEN "float" ELSE "int"

ER(a, t) == [a |-> a, t |-> t]

RECURSIVE _analizar_expresion(_, _)
RECURSIVE AnalizarArgumentos(_, _, _, _, _)

_analizar_operacion_binaria(a, e) ==
    LET l == _analizar_expresion(a, e.left)
        r == _analizar_expresion(l.a, e.right)
        ti == l.t
        td == r.t
    IN IF ti = "" \/ td = "" THEN ER(r.a, "")
       ELSE IF e.operator \in {"+", "-", "*", "/", "%"}
       THEN IF e.operator = "+" /\ (ti = "string" \/ td = "string") THEN ER(r.a, "string")
            ELSE IF _es_numerico(ti) /\ _es_numerico(td)
            THEN ER(r.a, _obtener_tipo_resultado_numerico(ti, td))
            ELSE ER(AddError(r.a, "operator_types"), "")
       ELSE IF e.operator \in {"==", "!=", "<", ">", "<=", ">="}
       THEN IF _tipos_compatibles(ti, td) THEN ER(r.a, "bool")
            ELSE ER(AddError(r.a, "compare_types"), "")
       ELSE IF e.operator \in {"and", "or"}
       THEN IF ti = "bool" /\ td = "bool" THEN ER(r.a, "bool")
            ELSE ER(AddError(r.a, "logical_types"), "")
       ELSE ER(r.a, "")

_analizar_operacion_unaria(a, e) ==
    LET o == _analizar_expresion(a, e.operand)
    IN IF o.t = "" THEN ER(o.a, "")
       ELSE IF e.operator = "not"
       THEN IF o.t = "bool" THEN ER(o.a, "bool") ELSE ER(AddError(o.a, "not_type"), "")
       ELSE IF e.operator = "-"
       THEN IF _es_numerico(o.t) THEN ER(o.a, o.t) ELSE ER(AddError(o.a, "neg_type"), "")
       ELSE ER(o.a, "")

\* for i, (parametro, argumento) in enumerate(zip(parameters, arguments))
AnalizarArgumentos(a, nm, ps, args, i) ==
    IF i > Len(ps) \/ i > Len(args) THEN a
    ELSE Let(_analizar_expresion(a, args[i]), LAMBDA r :
             AnalizarArgumentos(IF r.t # "" /\ ~_tipos_compatibles(ps[i].type, r.t)
                                THEN AddError(r.a, "argument_type")
                                ELSE r.a,
                                nm, ps, args, i + 1))

_analizar_llamada_funcion(a, e) ==
    LET sym == Lookup(a, e.name)
    IN IF ~sym.found THEN ER(AddError(a, "no_function"), "")
       ELSE IF ~sym.is_function THEN ER(AddError(a, "not_a_function"), "")
       ELSE IF Len(sym.parameters) # Len(e.arguments)
       THEN ER(AddError(a, "argument_count"), sym.return_type)
       ELSE ER(AnalizarArgumentos(a, e.name, sym.parameters, e.arguments, 1),
               sym.return_type)

_analizar_expresion(a, e) ==
    CASE e.kind = "Literal" -> ER(a, e.type)
      [] e.kind = "Variable" ->
            LET sym == Lookup(a, e.name)
            IN IF ~sym.found THEN ER(AddError(a, "no_variable"), "")
               ELSE IF sym.is_function THEN ER(AddError(a, "is_a_function"), "")
               ELSE ER(a, sym.type)
      [] e.kind = "BinaryOperation" -> _analizar_operacion_binaria(a, e)
      [] e.kind = "UnaryOperation" -> _analizar_operacion_unaria(a, e)
      [] e.kind = "FunctionCall" -> _analizar_llamada_funcion(a, e)
      [] OTHER -> ER(a, "")

RECURSIVE _analizar_declaracion(_, _)
RECURSIVE AnalizarLista(_, _, _)
RECURSIVE AnalizarElifs(_, _, _)
RECURSIVE _tiene_return(_, _)
RECURSIVE ElifTieneReturn(_, _)

\* for declaracion in <lista>: self._analizar_declaracion(declaracion)
AnalizarLista(a, stmts, i) ==
    IF i > Len(stmts) THEN a
    ELSE Let(_analizar_declaracion(a, stmts[i]), LAMBDA a2 : AnalizarLista(a2, stmts, i + 1))

\* the condition of a statement must type to bool (or fail to type)
Condicion(a, e, err) ==
    LET c == _analizar_expresion(a, e)
    IN IF c.t # "" /\ c.t # "bool" THEN AddError(c.a, err) ELSE c.a

_analizar_declaracion_variable(a, st) ==
    IF st.type \notin {"int", "float", "string", "bool"} THEN AddError(a, "bad_type")
    ELSE LET v == IF st.hasValue THEN _analizar_expresion(a, st.value) ELSE ER(a, "")
             a2 == IF st.hasValue /\ v.t # "" /\ ~_tipos_compatibles(st.type, v.t)
                   THEN AddError(v.a, "assign_type")
                   ELSE v.a
             dc == declare(a2, st.name, Symbol(st.type, FALSE, <<>>, ""))
         IN IF dc.raised THEN AddError(a2, "redeclared") ELSE dc.a

_analizar_asignacion(a, st) ==
    LET sym == Lookup(a, st.name)
    IN IF ~sym.found THEN AddError(a, "undeclared")
       ELSE IF sym.is_function THEN AddError(a, "assign_to_function")
       ELSE LET v == _analizar_expresion(a, st.value)
            IN IF v.t # "" /\ ~_tipos_compatibles(sym.type, v.t)
               THEN AddError(v.a, "assign_type")
               ELSE v.a

AnalizarElifs(a, parts, i) ==
    IF i > Len(parts) THEN a
    ELSE Let(Condicion(a, parts[i].condition, "elif_condition"), LAMBDA c :
         Let(AnalizarLista(c, parts[i].body, 1), LAMBDA b :
         AnalizarElifs(b, parts, i + 1)))

_analizar_if(a, st) ==
    LET c == Condicion(a, st.condition, "if_condition")
        th == AnalizarLista(c, st.then_body, 1)
        el == AnalizarElifs(th, st.elif_parts, 1)
    IN IF st.hasElse /\ st.else_body # <<>> THEN AnalizarLista(el, st.else_body, 1) ELSE el

\* _analizar_while without the finally that restores in_loop
_analizar_while_leaving_flag(a, st) ==
    AnalizarLista([Condicion(a, st.condition, "while_condition") EXCEPT !.in_loop = TRUE],
                  st.body, 1)

_analizar_while(a, st) ==
    LET c == Condicion(a, st.condition, "while_condition")
        b == AnalizarLista([c EXCEPT !.in_loop = TRUE], st.body, 1)
    IN [b EXCEPT !.in_loop = a.in_loop]

_analizar_for(a, st) ==
    LET a0 == [a EXCEPT !.scopes = Append(@, EmptyTable)]
        i == IF st.hasInit THEN _analizar_declaracion(a0, st.init) ELSE a0
        c == IF st.hasCondition THEN Condicion(i, st.condition, "for_condition") ELSE i
        u == IF st.hasUpdate THEN _analizar_declaracion(c, st.update) ELSE c
        b == AnalizarLista([u EXCEPT !.in_loop = TRUE], st.body, 1)
    IN [b EXCEPT !.in_loop = u.in_loop, !.scopes = SubSeq(@, 1, Len(a.scopes))]

_analizar_return(a, st) ==
    LET tipo_esperado == a.fn.return_type
    IN IF st.hasValue
       THEN IF tipo_esperado = "void" THEN AddError(a, "return_value_in_void")
            ELSE LET v == _analizar_expresion(a, st.value)
                 IN IF v.t # "" /\ ~_tipos_compatibles(tipo_esperado, v.t)
                    THEN AddError(v.a, "return_type")
                    ELSE v.a
       ELSE IF tipo_esperado # "void" THEN AddError(a, "return_without_value")
       ELSE a

_analizar_break(a, st) == IF ~a.in_loop THEN AddError(a, "break_outside_loop") ELSE a

_analizar_continue(a, st) == IF ~a.in_loop THEN AddError(a, "continue_outside_loop") ELSE a

_analizar_declaracion(a, st) ==
    CASE st.kind = "VariableDeclaration" -> _analizar_declaracion_variable(a, st)
      [] st.kind = "Assignment" -> _analizar_asignacion(a, st)
      [] st.kind = "IfStatement" -> _analizar_if(a, st)
      [] st.kind = "WhileStatement" -> _analizar_while(a, st)
      [] st.kind = "ForStatement" -> _analizar_for(a, st)
      [] st.kind = "ReturnStatement" -> _analizar_return(a, st)
      [] st.kind = "BreakStatement" -> _analizar_break(a, st)
      [] st.kind = "ContinueStatement" -> _analizar_continue(a, st)
      [] st.kind = "ExpressionStatement" -> _analizar_expresion(a, st.expression).a
      [] OTHER -> a

\* for elif_part in elif_parts: if self._tiene_return(elif_part.body): ... break
ElifTieneReturn(parts, i) ==
    IF i > Len(parts) THEN FALSE
    ELSE _tiene_return(parts[i].body, 1) \/ ElifTieneReturn(parts, i + 1)

\* _tiene_return over declaraciones[i..]
_tiene_return(stmts, i) ==
    IF i > Len(stmts) THEN FALSE
    ELSE LET st == stmts[i]
         IN IF st.kind = "ReturnStatement" THEN TRUE
            ELSE IF st.kind = "IfStatement"
            THEN LET tiene_then == _tiene_return(st.then_body, 1)
                     tiene_else ==
                         IF st.hasElse /\ st.else_body # <<>>
                         THEN _tiene_return(st.else_body, 1)
                         ELSE IF st.elif_parts # <<>>
                         THEN ElifTieneReturn(st.elif_parts, 1)
                         ELSE FALSE
                 IN (tiene_then /\ tiene_else) \/ _tiene_return(stmts, i + 1)
            ELSE _tiene_return(stmts, i + 1)

\* for parametro in funcion.parameters: self.current_table.declare(...)
RECURSIVE DeclararParametros(_, _, _)
DeclararParametros(a, ps, i) ==
    IF i > Len(ps) THEN [raised |-> FALSE, a |-> a]
    ELSE LET dc == declare(a, ps[i].name, Symbol(ps[i].type, FALSE, <<>>, ""))
         IN IF dc.raised THEN dc ELSE DeclararParametros(dc.a, ps, i + 1)

_analizar_funcion(a, f) ==
    LET a0 == [a EXCEPT !.scopes = Append(@, EmptyTable), !.fn = f]
        ps == DeclararParametros(a0, f.parameters, 1)
        b == AnalizarLista(ps.a, f.body, 1)
        r == IF f.return_type # "void" /\ ~_tiene_return(f.body, 1)
             THEN AddError(b, "missing_return")
             ELSE b
        done == IF ps.raised THEN AddError(ps.a, "redeclared") ELSE r
    IN [done EXCEPT !.scopes = a.scopes, !.fn = a.fn]

_declarar_funcion(a, f) ==
    LET dc == declare(a, f.name, Symbol(f.return_type, TRUE, f.parameters, f.return_type))
    IN IF dc.raised THEN AddError(a, "redeclared") ELSE dc.a

RECURSIVE DeclararFunciones(_, _, _)
DeclararFunciones(a, fs, i) ==
    IF i > Len(fs) THEN a
    ELSE Let(_declarar_funcion(a, fs[i]), LAMBDA a2 : DeclararFunciones(a2, fs, i + 1))

RECURSIVE AnalizarFunciones(_, _, _)
AnalizarFunciones(a, fs, i) ==
    IF i > Len(fs) THEN a
    ELSE Let(_analizar_funcion(a, fs[i]), LAMBDA a2 : AnalizarFunciones(a2, fs, i + 1))

\* aurumSemanticAnalyzer().analyze(program): the list of diagnostics
analyze(fs) ==
    LET a0 == [scopes |-> <<SystemTable>>, errors |-> <<>>, in_loop |-> FALSE,
               fn |-> Function("", <<>>, "void", <<>>)]
        a1 == DeclararFunciones(a0, fs, 1)
        simbolo_main == Lookup(a1, "main")
        a2 == IF ~simbolo_main.found THEN AddError(a1, "no_main")
              ELSE IF simbolo_main.return_type # "void" THEN AddError(a1, "main_not_void")
              ELSE IF simbolo_main.parameters # <<>> THEN AddError(a1, "main_parameters")
              ELSE a1
    IN AnalizarFunciones(a2, fs, 1).errors

(***************************************************************************)
(* Text of numbers: str(int).                                              *)
(***************************************************************************)
DigitChars == <<"0", "1", "2", "3", "4", "5", "6", "7", "8", "9">>

RECURSIVE NatStr(_)
NatStr(i) == IF i < 10 THEN DigitChars[i + 1] ELSE NatStr(i \div 10) \o DigitChars[(i % 10) + 1]

IntStr(i) == IF i < 0 THEN "-" \o NatStr(-i) ELSE NatStr(i)

(***************************************************************************)
(* The code generator.  An instruction's operands are runtime values       *)
(* (NoneV for an unused operand).  The generator's fields travel as one    *)
(* record g: instructions, variables, functions, memory_counter,           *)
(* label_counter, break_labels, continue_labels; raised is "" or the name  *)
(* of the exception that escaped.                                          *)
(***************************************************************************)
Instruction(op, a1, a2) == [op |-> op, arg1 |-> a1, arg2 |-> a2, arg3 |-> NoneV]

Instruction0(op) == Instruction(op, NoneV, NoneV)

\* nothing more happens in the generator once an exception is on its way out
Emit(g, ins) == IF g.raised # "" THEN g ELSE [g EXCEPT !.instructions = Append(@, ins)]

Raise(g, exc) == IF g.raised = "" THEN [g EXCEPT !.raised = exc] ELSE g

\* [label, g]: the label f"L{label_counter}" and the generator after the call
_generate_label(g) ==
    [label |-> "L" \o IntStr(g.label_counter),
     g |-> IF g.raised # "" THEN g ELSE [g EXCEPT !.label_counter = @ + 1]]

\* _allocate_variable taking a new address also for a name it knows
_allocate_variable_afresh(g, nm) ==
    IF g.raised # "" THEN [addr |-> 0, g |-> g]
    ELSE [addr |-> g.memory_counter,
          g |-> [g EXCEPT !.variables = (nm :> g.memory_counter) @@ @,
                          !.memory_counter = @ + 1]]

\* [addr, g]
_allocate_variable(g, nm) ==
    IF nm \in DOMAIN g.variables THEN [addr |-> g.variables[nm], g |-> g]
    ELSE IF g.raised # "" THEN [addr |-> 0, g |-> g]
    ELSE [addr |-> g.memory_counter,
          g |-> [g EXCEPT !.variables = (nm :> g.memory_counter) @@ @,
                          !.memory_counter = @ + 1]]

_get_default_value(type_name) ==
    CASE type_name = "int" -> IntV(0)
      [] type_name = "float" -> FloatV(0, 1)
      [] type_name = "string" -> StrV("")
      [] type_name = "bool" -> BoolV(FALSE)
      [] OTHER -> NoneV

op_map ==
    ("+" :> "ADD") @@ ("-" :> "SUB") @@ ("*" :> "MUL") @@ ("/" :> "DIV") @@ ("%" :> "MOD")
    @@ ("==" :> "EQ") @@ ("!=" :> "NEQ") @@ ("<" :> "LT") @@ (">" :> "GT")
    @@ ("<=" :> "LEQ") @@ (">=" :> "GEQ") @@ ("and" :> "AND") @@ ("or" :> "OR")

RECURSIVE _generate_expression(_, _)
RECURSIVE GenerateArguments(_, _, _)

\* the code of the right operand put before the code of the left one
_generate_binary_operation_right_first(g, e) ==
    LET r == _generate_expression(g, e.right)
        l == _generate_expression(r, e.left)
    IN IF e.operator \in DOMAIN op_map THEN Emit(l, Instruction0(op_map[e.operator]))
       ELSE Raise(l, "CodeGeneratorError")

_generate_binary_operation(g, e) ==
    LET l == _generate_expression(g, e.left)
        r == _generate_expression(l, e.right)
    IN IF e.operator \in DOMAIN op_map THEN Emit(r, Instruction0(op_map[e.operator]))
       ELSE Raise(r, "CodeGeneratorError")

_generate_unary_operation(g, e) ==
    LET o == _generate_expression(g, e.operand)
    IN IF e.operator = "-" THEN Emit(o, Instruction0("NEG"))
       ELSE IF e.operator = "not" THEN Emit(o, Instruction0("NOT"))
       ELSE Raise(o, "CodeGeneratorError")

\* for arg in reversed(expr.arguments): self._generate_expression(arg)
GenerateArguments(g, args, i) ==
    IF i < 1 \/ g.raised # "" THEN g ELSE GenerateArguments(_generate_expression(g, args[i]), args, i - 1)

_generate_function_call(g, e) ==
    Emit(GenerateArguments(g, e.arguments, Len(e.arguments)),
         Instruction("CALL", StrV(e.name), IntV(Len(e.arguments))))

_generate_expression(g, e) ==
    CASE e.kind = "Literal" -> Emit(g, Instruction("LOAD_CONST", e.value, NoneV))
      [] e.kind = "Variable" ->
            IF e.name \in DOMAIN g.variables
            THEN Emit(g, Instruction("LOAD", IntV(g.variables[e.name]), NoneV))
            ELSE Raise(g, "KeyError")
      [] e.kind = "BinaryOperation" -> _generate_binary_operation(g, e)
      [] e.kind = "UnaryOperation" -> _generate_unary_operation(g, e)
      [] e.kind = "FunctionCall" -> _generate_function_call(g, e)
      [] OTHER -> g

RECURSIVE _generate_statement(_, _)
RECURSIVE GenerateList(_, _, _)
RECURSIVE GenerateElifs(_, _, _, _, _)

\* for s in <body>: self._generate_statement(s)
GenerateList(g, stmts, i) ==
    IF i > Len(stmts) \/ g.raised # "" THEN g
    ELSE GenerateList(_generate_statement(g, stmts[i]), stmts, i + 1)

_generate_variable_declaration(g, st) ==
    LET al == _allocate_variable(g, st.name)
        v == IF st.hasValue THEN _generate_expression(al.g, st.value)
             ELSE Emit(al.g, Instruction("LOAD_CONST", _get_default_value(st.type), NoneV))
    IN Emit(v, Instruction("STORE", IntV(al.addr), NoneV))

_generate_assignment(g, st) ==
    IF st.name \notin DOMAIN g.variables THEN Raise(g, "KeyError")
    ELSE Emit(_generate_expression(g, st.value),
              Instruction("STORE", IntV(g.variables[st.name]), NoneV))

\* the elif loop: [g, current_else_label]
GenerateElifs(g, parts, i, end_label, current_else_label) ==
    IF i > Len(parts) \/ g.raised # "" THEN [g |-> g, label |-> current_else_label]
    ELSE LET g1 == Emit(g, Instruction("LABEL", StrV(current_else_label), NoneV))
             g2 == _generate_expression(g1, parts[i].condition)
             nx == _generate_label(g2)
             g3 == Emit(nx.g, Instruction("JUMP_IF_FALSE", StrV(nx.label), NoneV))
             g4 == GenerateList(g3, parts[i].body, 1)
             g5 == Emit(g4, Instruction("JUMP", StrV(end_label), NoneV))
         IN GenerateElifs(g5, parts, i + 1, end_label, nx.label)

_generate_if_statement(g, st) ==
    LET en == _generate_label(g)
        el == _generate_label(en.g)
        g1 == _generate_expression(el.g, st.condition)
        g2 == Emit(g1, Instruction("JUMP_IF_FALSE", StrV(el.label), NoneV))
        g3 == GenerateList(g2, st.then_body, 1)
        g4 == Emit(g3, Instruction("JUMP", StrV(en.label), NoneV))
        ei == GenerateElifs(g4, st.elif_parts, 1, en.label, el.label)
        g5 == Emit(ei.g, Instruction("LABEL", StrV(ei.label), NoneV))
        g6 == IF st.hasElse /\ st.else_body # <<>> THEN GenerateList(g5, st.else_body, 1)
              ELSE g5
    IN Emit(g6, Instruction("LABEL", StrV(en.label), NoneV))

PushLoop(g, brk, cont) ==
    IF g.raised # "" THEN g ELSE
    [g EXCEPT !.break_labels = Append(@, brk), !.continue_labels = Append(@, cont)]

PopLoop(g) ==
    IF g.raised # "" THEN g ELSE
    [g EXCEPT !.break_labels = SubSeq(@, 1, Len(@) - 1),
              !.continue_labels = SubSeq(@, 1, Len(@) - 1)]

_generate_while_statement(g, st) ==
    LET sl == _generate_label(g)
        el == _generate_label(sl.g)
        g1 == PushLoop(el.g, el.label, sl.label)
        g2 == Emit(g1, Instruction("LABEL", StrV(sl.label), NoneV))
        g3 == _generate_expression(g2, st.condition)
        g4 == Emit(g3, Instruction("JUMP_IF_FALSE", StrV(el.label), NoneV))
        g5 == GenerateList(g4, st.body, 1)
        g6 == Emit(g5, Instruction("JUMP", StrV(sl.label), NoneV))
        g7 == Emit(g6, Instruction("LABEL", StrV(el.label), NoneV))
    IN PopLoop(g7)

_generate_for_statement(g, st) ==
    LET sl == _generate_label(g)
        ul == _generate_label(sl.g)
        el == _generate_label(ul.g)
        g1 == PushLoop(el.g, el.label, ul.label)
        g2 == IF st.hasInit THEN _generate_statement(g1, st.init) ELSE g1
        g3 == Emit(g2, Instruction("LABEL", StrV(sl.label), NoneV))
        g4 == IF st.hasCondition
              THEN Emit(_generate_expression(g3, st.condition),
                        Instruction("JUMP_IF_FALSE", StrV(el.label), NoneV))
              ELSE g3
        g5 == GenerateList(g4, st.body, 1)
        g6 == Emit(g5, Instruction("LABEL", StrV(ul.label), NoneV))
        g7 == IF st.hasUpdate THEN _generate_statement(g6, st.update) ELSE g6
        g8 == Emit(g7, Instruction("JUMP", StrV(sl.label), NoneV))
        g9 == Emit(g8, Instruction("LABEL", StrV(el.label), NoneV))
    IN PopLoop(g9)

_generate_return_statement(g, st) ==
    IF st.hasValue
    THEN Emit(_generate_expression(g, st.value), Instruction0("RETURN_VALUE"))
    ELSE Emit(g, Instruction0("RETURN"))

_generate_break_statement(g, st) ==
    IF g.break_labels # <<>>
    THEN Emit(g, Instruction("JUMP", StrV(g.break_labels[Len(g.break_labels)]), NoneV))
    ELSE Raise(g, "CodeGeneratorError")

_generate_continue_statement(g, st) ==
    IF g.continue_labels # <<>>
    THEN Emit(g, Instruction("JUMP", StrV(g.continue_labels[Len(g.continue_labels)]), NoneV))
    ELSE Raise(g, "CodeGeneratorError")

_generate_statement(g, st) ==
    CASE st.kind = "VariableDeclaration" -> _generate_variable_declaration(g, st)
      [] st.kind = "Assignment" -> _generate_assignment(g, st)
      [] st.kind = "IfStatement" -> _generate_if_statement(g, st)
      [] st.kind = "WhileStatement" -> _generate_while_statement(g, st)
      [] st.kind = "ForStatement" -> _generate_for_statement(g, st)
      [] st.kind = "ReturnStatement" -> _generate_return_statement(g, st)
      [] st.kind = "BreakStatement" -> _generate_break_statement(g, st)
      [] st.kind = "ContinueStatement" -> _generate_continue_statement(g, st)
      [] st.kind = "ExpressionStatement" ->
            Emit(_generate_expression(g, st.expression), Instruction0("POP"))
      [] OTHER -> g

\* for i, param in enumerate(function.parameters): STORE_PARAM i addr
RECURSIVE GenerateParameters(_, _, _)
GenerateParameters(g, ps, i) ==
    IF i > Len(ps) \/ g.raised # "" THEN g
    ELSE LET al == _allocate_variable(g, ps[i].name)
         IN GenerateParameters(
                Emit(al.g, Instruction("STORE_PARAM", IntV(i - 1), IntV(al.addr))),
                ps, i + 1)

_generate_function(g, f) ==
    LET g0 == IF g.raised # "" THEN g
              ELSE [g EXCEPT !.functions = (f.name :> Len(g.instructions)) @@ @]
        g1 == Emit(g0, Instruction("LABEL", StrV(f.name), NoneV))
        g2 == Emit(g1, Instruction("ENTER", IntV(Len(f.parameters)), NoneV))
        g3 == GenerateParameters(g2, f.parameters, 1)
        g4 == GenerateList(g3, f.body, 1)
        g5 == IF f.return_type = "void" THEN Emit(g4, Instruction0("RETURN")) ELSE g4
    IN Emit(g5, Instruction0("LEAVE"))

RECURSIVE GenerateFunctions(_, _, _)
GenerateFunctions(g, fs, i) ==
    IF i > Len(fs) \/ g.raised # "" THEN g ELSE GenerateFunctions(_generate_function(g, fs[i]), fs, i + 1)

\* the fields of a new aurumCodeGenerator()
NewGenerator ==
    [instructions |-> <<>>, variables |-> [nm \in {} |-> 0], functions |-> [nm \in {} |-> 0],
     memory_counter |-> 0, label_counter |-> 0, break_labels |-> <<>>,
     continue_labels |-> <<>>, raised |-> ""]

\* generate(ast) on a generator whose fields are g: the generator afterwards
generate(g, fs) ==
    LET g0 == [g EXCEPT !.instructions = <<>>, !.variables = [nm \in {} |-> 0],
                        !.functions = [nm \in {} |-> 0], !.memory_counter = 0,
                        !.raised = ""]
        g1 == GenerateFunctions(g0, fs, 1)
        main_call == <<Instruction("CALL", StrV("main"), IntV(0)), Instruction0("HALT")>>
    IN IF g1.raised # "" THEN g1
       ELSE [g1 EXCEPT !.instructions = main_call \o @]

(***************************************************************************)
(* Python's operations on the values the VM handles.  A result is          *)
(* [exc, v]: exc = "" and the value, or the name of the exception raised.  *)
(***************************************************************************)
Val(v) == [exc |-> "", v |-> v]

Exc(e) == [exc |-> e, v |-> NoneV]

IsNumber(v) == v.k \in {"int", "bool", "float"}

IsIntegral(v) == v.k \in {"int", "bool"}

\* bool(v)
Truthy(v) ==
    CASE v.k = "str" -> v.s # ""
      [] v.k = "none" -> FALSE
      [] OTHER -> v.n # 0

\* the digits of rem/den after the decimal point (cut after 16 digits)
RECURSIVE FractionDigits(_, _, _)
FractionDigits(rem, den, left) ==
    IF rem = 0 \/ left = 0 THEN ""
    ELSE DigitChars[((rem * 10) \div den) + 1]
         \o FractionDigits((rem * 10) % den, den, left - 1)

\* repr(float) of n/d, for the fractions whose decimal expansion is finite
FloatStr(n, d) ==
    (IF n < 0 THEN "-" ELSE "") \o NatStr(Abs(n) \div d) \o "."
    \o (IF Abs(n) % d = 0 THEN "0" ELSE FractionDigits(Abs(n) % d, d, 16))

\* str(v)
Str(v) ==
    CASE v.k = "str" -> v.s
      [] v.k = "int" -> IntStr(v.n)
      [] v.k = "float" -> FloatStr(v.n, v.d)
      [] v.k = "bool" -> IF v.n = 1 THEN "True" ELSE "False"
      [] OTHER -> "None"

\* a == b
PyEq(a, b) ==
    IF IsNumber(a) /\ IsNumber(b) THEN a.n * b.d = b.n * a.d
    ELSE IF a.k = "str" /\ b.k = "str" THEN a.s = b.s
    ELSE a.k = "none" /\ b.k = "none"

\* a % b on integers, b # 0: the result takes the sign of b
PyMod(a, b) == IF b > 0 THEN a % b ELSE -((-a) % (-b))

\* floor(n / d) for d > 0
Floor(n, d) == IF n >= 0 THEN n \div d ELSE -((-n + d - 1) \div d)

RECURSIVE Repeat(_, _)
Repeat(t, k) == IF k <= 0 THEN "" ELSE t \o Repeat(t, k - 1)

\* the numeric result: an int when both operands are integral, else a float
Number(a, b, num, den) ==
    IF IsIntegral(a) /\ IsIntegral(b) /\ den = 1 THEN IntV(num) ELSE FloatV(num, den)

\* a + b for operands that are not strings
PyAdd(a, b) ==
    IF IsNumber(a) /\ IsNumber(b) THEN Val(Number(a, b, a.n * b.d + b.n * a.d, a.d * b.d))
    ELSE Exc("TypeError")

PySub(a, b) ==
    IF IsNumber(a) /\ IsNumber(b) THEN Val(Number(a, b, a.n * b.d - b.n * a.d, a.d * b.d))
    ELSE Exc("TypeError")

PyMul(a, b) ==
    IF IsNumber(a) /\ IsNumber(b) THEN Val(Number(a, b, a.n * b.n, a.d * b.d))
    ELSE IF a.k = "str" /\ IsIntegral(b) THEN Val(StrV(Repeat(a.s, b.n)))
    ELSE IF IsIntegral(a) /\ b.k = "str" THEN Val(StrV(Repeat(b.s, a.n)))
    ELSE Exc("TypeError")

\* a / b for b # 0: true division, always a float
PyDiv(a, b) ==
    IF IsNumber(a) /\ IsNumber(b) THEN Val(FloatV(a.n * b.d, a.d * b.n))
    ELSE Exc("TypeError")

\* a % b for b # 0 (a string on the left is %-formatting, which fails here)
PyModulo(a, b) ==
    IF IsIntegral(a) /\ IsIntegral(b) THEN Val(IntV(PyMod(a.n, b.n)))
    ELSE IF IsNumber(a) /\ IsNumber(b)
    THEN LET q == Floor(a.n * b.d * (IF b.n < 0 THEN -1 ELSE 1), a.d * Abs(b.n))
         IN Val(FloatV(a.n * b.d - q * b.n * a.d, a.d * b.d))
    ELSE Exc("TypeError")

PyNeg(a) ==
    IF IsIntegral(a) THEN Val(IntV(-a.n))
    ELSE IF a.k = "float" THEN Val(FloatV(-a.n, a.d))
    ELSE Exc("TypeError")

\* a < b, a > b, a <= b, a >= b; the order of two strings is not modelled
PyCompare(op, a, b) ==
    IF IsNumber(a) /\ IsNumber(b)
    THEN LET x == a.n * b.d
             y == b.n * a.d
         IN Val(BoolV(CASE op = "LT" -> x < y
                        [] op = "GT" -> x > y
                        [] op = "LEQ" -> x <= y
                        [] OTHER -> x >= y))
    ELSE IF a.k = "str" /\ b.k = "str"
    THEN IF a.s = b.s THEN Val(BoolV(op \in {"LEQ", "GEQ"})) ELSE Exc("NotModelled")
    ELSE Exc("TypeError")

(***************************************************************************)
(* The virtual machine (aurumInterpreter).  vm is the record of the        *)
(* interpreter's fields; the stack grows at its end; memory holds the      *)
(* cells that are not None, keyed by their index in the list of            *)
(* MemorySize cells; labels are keyed by the LABEL operand.  A handler     *)
(* returns [vm, exc]: the fields after it ran and the exception it raised  *)
(* (type "" for none).                                                     *)
(***************************************************************************)
MemorySize == 1000

StackFrame(nm, ra, ps) == [function_name |-> nm, return_address |-> ra, parameters |-> ps]

NoException == [type |-> "", message |-> ""]

Continue(vm) == [vm |-> vm, exc |-> NoException]

\* raise RuntimeError(message)
RaiseRuntimeError(vm, msg) == [vm |-> vm, exc |-> [type |-> "RuntimeError", message |-> msg]]

\* an exception raised by Python itself
RaisePython(vm, t) == [vm |-> vm, exc |-> [type |-> t, message |-> ""]]

Top(st) == st[Len(st)]

Pop(st) == SubSeq(st, 1, Len(st) - 1)

Push(vm, v) == [vm EXCEPT !.stack = Append(@, v)]

Advance(vm) == [vm EXCEPT !.instruction_pointer = @ + 1]

\* memory[address] for an index the list accepts
MemGet(mem, address) ==
    LET i == IF address < 0 THEN address + MemorySize ELSE address
    IN IF i \in DOMAIN mem THEN mem[i] ELSE NoneV

\* memory[address] = v
MemSet(mem, address, v) ==
    LET i == IF address < 0 THEN address + MemorySize ELSE address
        dom == IF v = NoneV THEN DOMAIN mem \ {i} ELSE DOMAIN mem \cup {i}
    IN [j \in dom |-> IF j = i THEN v ELSE mem[j]]

\* what indexing a list of len cells with v raises, "" when it is a valid index
IndexError(v, len) ==
    IF ~IsIntegral(v) THEN "TypeError"
    ELSE IF v.n >= len \/ v.n < -len THEN "IndexError"
    ELSE ""

\* v >= len for an operand v
AtLeast(v, len) == v.n >= len * v.d

_build_label_table(instructions) ==
    LET at(l) == {i \in 1..Len(instructions) :
                     instructions[i].op = "LABEL" /\ instructions[i].arg1 = l}
    IN [l \in {instructions[i].arg1 : i \in {j \in 1..Len(instructions) :
                                                 instructions[j].op = "LABEL"}}
          |-> (CHOOSE i \in at(l) : \A j \in at(l) : j <= i) - 1]

\* the fields of a new aurumInterpreter()
NewInterpreter ==
    [instructions |-> <<>>, memory |-> [i \in {} |-> NoneV], stack |-> <<>>,
     call_stack |-> <<>>, instruction_pointer |-> 0, labels |-> [l \in {} |-> 0],
     variables |-> [nm \in {} |-> 0], functions |-> [nm \in {} |-> 0],
     output |-> <<>>, input_buffer |-> <<>>, halted |-> FALSE]

\* load_program without the "Reiniciar estado" assignment of memory
load_program_keeping_memory(vm, instructions, variables, functions) ==
    [vm EXCEPT !.instructions = instructions, !.variables = variables,
               !.functions = functions, !.labels = _build_label_table(instructions),
               !.stack = <<>>, !.call_stack = <<>>,
               !.instruction_pointer = 0, !.output = <<>>, !.halted = FALSE]

load_program(vm, instructions, variables, functions) ==
    [vm EXCEPT !.instructions = instructions, !.variables = variables,
               !.functions = functions, !.labels = _build_label_table(instructions),
               !.memory = [i \in {} |-> NoneV], !.stack = <<>>, !.call_stack = <<>>,
               !.instruction_pointer = 0, !.output = <<>>, !.halted = FALSE]

set_input(vm, input_lines) == [vm EXCEPT !.input_buffer = input_lines]

_exec_load_const(vm, instruction) == Continue(Advance(Push(vm, instruction.arg1)))

_exec_load(vm, instruction) ==
    LET address == instruction.arg1
    IN IF ~IsNumber(address) THEN RaisePython(vm, "TypeError")
       ELSE IF AtLeast(address, MemorySize)
       THEN RaiseRuntimeError(vm, "Direccion de memoria invalida")
       ELSE IF IndexError(address, MemorySize) # ""
       THEN RaisePython(vm, IndexError(address, MemorySize))
       ELSE IF MemGet(vm.memory, address.n) = NoneV
       THEN RaiseRuntimeError(vm, "Variable no inicializada")
       ELSE Continue(Advance(Push(vm, MemGet(vm.memory, address.n))))

\* STORE popping the value and writing nothing
_exec_store_dropped(vm, instruction) ==
    IF vm.stack = <<>> THEN RaiseRuntimeError(vm, "Pila vacia para operacion STORE")
    ELSE Continue(Advance([vm EXCEPT !.stack = Pop(@)]))

_exec_store(vm, instruction) ==
    IF vm.stack = <<>> THEN RaiseRuntimeError(vm, "Pila vacia para operacion STORE")
    ELSE LET value == Top(vm.stack)
             vm1 == [vm EXCEPT !.stack = Pop(@)]
             address == instruction.arg1
         IN IF ~IsNumber(address) THEN RaisePython(vm1, "TypeError")
            ELSE IF AtLeast(address, MemorySize)
            THEN RaiseRuntimeError(vm1, "Direccion de memoria invalida")
            ELSE IF IndexError(address, MemorySize) # ""
            THEN RaisePython(vm1, IndexError(address, MemorySize))
            ELSE Continue(Advance([vm1 EXCEPT !.memory = MemSet(@, address.n, value)]))

_exec_store_param(vm, instruction) ==
    LET param_index == instruction.arg1
        address == instruction.arg2
        frame == Top(vm.call_stack)
        count == Len(frame.parameters)
        value == frame.parameters[(IF param_index.n < 0 THEN param_index.n + count
                                   ELSE param_index.n) + 1]
    IN IF vm.call_stack = <<>> THEN RaiseRuntimeError(vm, "No hay frame de funcion activo")
       ELSE IF ~IsNumber(param_index) THEN RaisePython(vm, "TypeError")
       ELSE IF AtLeast(param_index, count)
       THEN RaiseRuntimeError(vm, "Indice de parametro invalido")
       ELSE IF IndexError(param_index, count) # ""
       THEN RaisePython(vm, IndexError(param_index, count))
       ELSE IF IndexError(address, MemorySize) # ""
       THEN RaisePython(vm, IndexError(address, MemorySize))
       ELSE Continue(Advance([vm EXCEPT !.memory = MemSet(@, address.n, value)]))

\* the common shape of the two-operand handlers: pop b, pop a, push Op(a, b)
Binary(vm, name, Op(_, _)) ==
    IF Len(vm.stack) < 2
    THEN RaiseRuntimeError(vm, "Pila insuficiente para operacion " \o name)
    ELSE LET b == vm.stack[Len(vm.stack)]
             a == vm.stack[Len(vm.stack) - 1]
             vm1 == [vm EXCEPT !.stack = SubSeq(@, 1, Len(@) - 2)]
             r == Op(a, b)
         IN IF r.exc # "" THEN RaisePython(vm1, r.exc)
            ELSE Continue(Advance(Push(vm1, r.v)))

\* the common shape of the one-operand handlers
Unary(vm, name, Op(_)) ==
    IF vm.stack = <<>> THEN RaiseRuntimeError(vm, "Pila vacia para operacion " \o name)
    ELSE LET a == Top(vm.stack)
             vm1 == [vm EXCEPT !.stack = Pop(@)]
             r == Op(a)
         IN IF r.exc # "" THEN RaisePython(vm1, r.exc)
            ELSE Continue(Advance(Push(vm1, r.v)))

\* ADD joining the texts of a string operand and the other one right before left
AddResultReversed(a, b) ==
    IF a.k = "str" \/ b.k = "str" THEN Val(StrV(Str(b) \o Str(a))) ELSE PyAdd(a, b)

AddResult(a, b) ==
    IF a.k = "str" \/ b.k = "str" THEN Val(StrV(Str(a) \o Str(b))) ELSE PyAdd(a, b)

_exec_add(vm) == Binary(vm, "ADD", AddResult)

_exec_sub(vm) == Binary(vm, "SUB", PySub)

\* MUL adding its operands
_exec_mul_adding(vm) == Binary(vm, "ADD", PyAdd)

_exec_mul(vm) == Binary(vm, "MUL", PyMul)

\* b == 0
IsZero(b) == IsNumber(b) /\ b.n = 0

\* DIV without its test of the divisor: Python's own ZeroDivisionError
DivUnchecked(a, b) == IF IsZero(b) THEN Exc("ZeroDivisionError") ELSE PyDiv(a, b)

_exec_div_unchecked(vm) == Binary(vm, "DIV", DivUnchecked)

_exec_div(vm) ==
    IF Len(vm.stack) < 2 THEN RaiseRuntimeError(vm, "Pila insuficiente para operacion DIV")
    ELSE IF IsZero(Top(vm.stack))
    THEN RaiseRuntimeError([vm EXCEPT !.stack = SubSeq(@, 1, Len(@) - 2)],
                           "Division por cero")
    ELSE Binary(vm, "DIV", PyDiv)

_exec_mod(vm) ==
    IF Len(vm.stack) < 2 THEN RaiseRuntimeError(vm, "Pila insuficiente para operacion MOD")
    ELSE IF IsZero(Top(vm.stack))
    THEN RaiseRuntimeError([vm EXCEPT !.stack = SubSeq(@, 1, Len(@) - 2)],
                           "Division por cero en operacion modulo")
    ELSE Binary(vm, "MOD", PyModulo)

_exec_neg(vm) == Unary(vm, "NEG", PyNeg)

EqResult(a, b) == Val(BoolV(PyEq(a, b)))

NeqResult(a, b) == Val(BoolV(~PyEq(a, b)))

LtResult(a, b) == PyCompare("LT", a, b)

GtResult(a, b) == PyCompare("GT", a, b)

LeqResult(a, b) == PyCompare("LEQ", a, b)

GeqResult(a, b) == PyCompare("GEQ", a, b)

_exec_eq(vm) == Binary(vm, "EQ", EqResult)

_exec_neq(vm) == Binary(vm, "NEQ", NeqResult)

_exec_lt(vm) == Binary(vm, "LT", LtResult)

_exec_gt(vm) == Binary(vm, "GT", GtResult)

_exec_leq(vm) == Binary(vm, "LEQ", LeqResult)

_exec_geq(vm) == Binary(vm, "GEQ", GeqResult)

\* a and b
AndResult(a, b) == Val(IF Truthy(a) THEN b ELSE a)

\* a or b
OrResult(a, b) == Val(IF Truthy(a) THEN a ELSE b)

NotResult(a) == Val(BoolV(~Truthy(a)))

_exec_and(vm) == Binary(vm, "AND", AndResult)

_exec_or(vm) == Binary(vm, "OR", OrResult)

_exec_not(vm) == Unary(vm, "NOT", NotResult)

_exec_jump(vm, instruction) ==
    LET label == instruction.arg1
    IN IF label \notin DOMAIN vm.labels
       THEN RaiseRuntimeError(vm, "Etiqueta no encontrada")
       ELSE Continue([vm EXCEPT !.instruction_pointer = vm.labels[label]])

_exec_jump_if_false(vm, instruction) ==
    IF vm.stack = <<>>
    THEN RaiseRuntimeError(vm, "Pila vacia para operacion JUMP_IF_FALSE")
    ELSE LET condition == Top(vm.stack)
             vm1 == [vm EXCEPT !.stack = Pop(@)]
             label == instruction.arg1
         IN IF Truthy(condition) THEN Continue(Advance(vm1))
            ELSE IF label \notin DOMAIN vm.labels
            THEN RaiseRuntimeError(vm1, "Etiqueta no encontrada")
            ELSE Continue([vm1 EXCEPT !.instruction_pointer = vm.labels[label]])

(***************************************************************************)
(* read(): an input line is the sequence of its characters.  int() and     *)
(* float() are modelled for lines made of digits, a sign and a point; any  *)
(* other character makes the conversion raise ValueError.                  *)
(***************************************************************************)
RECURSIVE Join(_)
Join(cs) == IF cs = <<>> THEN "" ELSE cs[1] \o Join(Tail(cs))

IsDigits(cs) == cs # <<>> /\ \A i \in 1..Len(cs) : \E d \in 1..10 : DigitChars[d] = cs[i]

RECURSIVE DigitsValue(_)
DigitsValue(cs) ==
    IF cs = <<>> THEN 0
    ELSE 10 * DigitsValue(SubSeq(cs, 1, Len(cs) - 1))
         + ((CHOOSE d \in 1..10 : DigitChars[d] = cs[Len(cs)]) - 1)

Unsigned(cs) == IF cs # <<>> /\ cs[1] \in {"-", "+"} THEN Tail(cs) ELSE cs

Sign(cs) == IF cs # <<>> /\ cs[1] = "-" THEN -1 ELSE 1

\* the line kept as the text it is
ConvertInputAsText(cs) == StrV(Join(cs))

\* value = float(value) if '.' in value else int(value), ValueError: keep the text
ConvertInput(cs) ==
    LET body == Unsigned(cs)
        points == {i \in 1..Len(body) : body[i] = "."}
        pt == CHOOSE i \in points : TRUE
        whole == SubSeq(body, 1, pt - 1)
        frac == SubSeq(body, pt + 1, Len(body))
    IN IF \E i \in 1..Len(cs) : cs[i] = "."
       THEN IF /\ Cardinality(points) = 1
               /\ whole \o frac # <<>>
               /\ (whole = <<>> \/ IsDigits(whole))
               /\ (frac = <<>> \/ IsDigits(frac))
            THEN FloatV(Sign(cs) * (DigitsValue(whole) * Pow10(Len(frac)) + DigitsValue(frac)),
                        Pow10(Len(frac)))
            ELSE StrV(Join(cs))
       ELSE IF IsDigits(body) THEN IntV(Sign(cs) * DigitsValue(body))
            ELSE StrV(Join(cs))

_call_builtin_function(vm, function_name, arg_count) ==
    IF function_name \in {"print", "write"}
    THEN IF ~PyEq(arg_count, IntV(1))
         THEN RaiseRuntimeError(vm, function_name \o "() espera 1 argumento")
         ELSE IF vm.stack = <<>>
         THEN RaiseRuntimeError(vm, "Argumento faltante para " \o function_name \o "()")
         ELSE Continue(Advance(
                  [vm EXCEPT !.output = Append(@, Str(Top(vm.stack))),
                             !.stack = Append(Pop(@), NoneV)]))
    ELSE IF ~PyEq(arg_count, IntV(0))
         THEN RaiseRuntimeError(vm, "read() no espera argumentos")
         ELSE IF vm.input_buffer # <<>>
         THEN Continue(Advance(
                  [vm EXCEPT !.input_buffer = Tail(@),
                             !.stack = Append(@, ConvertInput(Head(vm.input_buffer)))]))
         ELSE Continue(Advance(Push(vm, StrV(""))))

_exec_call(vm, instruction) ==
    LET function_name == instruction.arg1
        arg_count == instruction.arg2
        n == IF arg_count.n < 0 THEN 0 ELSE arg_count.n
        len == Len(vm.stack)
    IN IF function_name.k = "str" /\ function_name.s \in {"print", "write", "read"}
       THEN _call_builtin_function(vm, function_name.s, arg_count)
       ELSE IF function_name \notin DOMAIN vm.labels
       THEN RaiseRuntimeError(vm, "Funcion no encontrada")
       ELSE IF ~IsIntegral(arg_count) THEN RaisePython(vm, "TypeError")
       ELSE IF len < n
       THEN RaiseRuntimeError([vm EXCEPT !.stack = <<>>], "Argumentos insuficientes para funcion")
       ELSE Continue(
                [vm EXCEPT !.stack = SubSeq(@, 1, len - n),
                           !.call_stack = Append(@,
                               StackFrame(function_name, vm.instruction_pointer + 1,
                                          SubSeq(vm.stack, len - n + 1, len))),
                           !.instruction_pointer = vm.labels[function_name]])

\* RETURN leaving nothing on the stack for the caller
_exec_return_without_value(vm) ==
    IF vm.call_stack = <<>> THEN Continue([vm EXCEPT !.halted = TRUE])
    ELSE Continue([vm EXCEPT !.call_stack = Pop(@),
                             !.instruction_pointer = Top(vm.call_stack).return_address])

_exec_return(vm) ==
    IF vm.call_stack = <<>> THEN Continue([vm EXCEPT !.halted = TRUE])
    ELSE Continue([vm EXCEPT !.call_stack = Pop(@), !.stack = Append(@, NoneV),
                             !.instruction_pointer = Top(vm.call_stack).return_address])

\* RETURN_VALUE going back to the caller with the callee's frame left in place
_exec_return_value_keeping_frame(vm) ==
    IF vm.stack = <<>> THEN RaiseRuntimeError(vm, "Valor de retorno faltante")
    ELSE IF vm.call_stack = <<>>
    THEN Continue([vm EXCEPT !.stack = Pop(@), !.halted = TRUE])
    ELSE Continue([vm EXCEPT !.instruction_pointer = Top(vm.call_stack).return_address])

_exec_return_value(vm) ==
    IF vm.stack = <<>> THEN RaiseRuntimeError(vm, "Valor de retorno faltante")
    ELSE IF vm.call_stack = <<>>
    THEN Continue([vm EXCEPT !.stack = Pop(@), !.halted = TRUE])
    ELSE Continue([vm EXCEPT !.call_stack = Pop(@),
                             !.instruction_pointer = Top(vm.call_stack).return_address])

\* ENTER leaving the instruction pointer where it is
_exec_enter_staying(vm, instruction) == Continue(vm)

_exec_enter(vm, instruction) == Continue(Advance(vm))

_exec_leave(vm) == Continue(Advance(vm))

_exec_halt(vm) == Continue([vm EXCEPT !.halted = TRUE])

_exec_pop(vm) ==
    IF vm.stack = <<>> THEN RaiseRuntimeError(vm, "Pila vacia para operacion POP")
    ELSE Continue(Advance([vm EXCEPT !.stack = Pop(@)]))

\* LABEL: nothing happens at run time
ExecLabelResult(vm) == Continue(Advance(vm))

\* the else branch of _execute_instruction
ExecUnknownResult(vm) == RaiseRuntimeError(vm, "Instruccion no reconocida")

Opcodes ==
    {"LOAD_CONST", "LOAD", "STORE", "STORE_PARAM", "ADD", "SUB", "MUL", "DIV", "MOD",
     "NEG", "EQ", "NEQ", "LT", "GT", "LEQ", "GEQ", "AND", "OR", "NOT", "JUMP",
     "JUMP_IF_FALSE", "CALL", "RETURN", "RETURN_VALUE", "ENTER", "LEAVE", "HALT", "POP",
     "LABEL"}

(***************************************************************************)
(* The lexer's classification of a lexeme: a word is a reserved word or an *)
(* identifier, a symbol is an operator or a delimiter.  A source text is   *)
(* written as the list of its lexemes; tokenize() appends EOF.             *)
(***************************************************************************)
keywords ==
    [w \in {"int", "float", "string", "bool", "void", "if", "else", "elif", "while",
            "for", "break", "continue", "return", "func", "main", "and", "or", "not",
            "true", "false"} |->
        CASE w = "int" -> "INT" [] w = "float" -> "FLOAT_TYPE" [] w = "string" -> "STRING_TYPE"
          [] w = "bool" -> "BOOL_TYPE" [] w = "void" -> "VOID" [] w = "if" -> "IF"
          [] w = "else" -> "ELSE" [] w = "elif" -> "ELIF" [] w = "while" -> "WHILE"
          [] w = "for" -> "FOR" [] w = "break" -> "BREAK" [] w = "continue" -> "CONTINUE"
          [] w = "return" -> "RETURN" [] w = "func" -> "FUNC" [] w = "main" -> "MAIN"
          [] w = "and" -> "AND" [] w = "or" -> "OR" [] w = "not" -> "NOT"
          [] OTHER -> "BOOLEAN"]

patterns ==
    [y \in {"->", "==", "!=", "<=", ">=", "+", "-", "*", "/", "%", "=", "<", ">", "(", ")",
            "{", "}", ";", ","} |->
        CASE y = "->" -> "ARROW" [] y = "==" -> "EQUAL" [] y = "!=" -> "NOT_EQUAL"
          [] y = "<=" -> "LESS_EQUAL" [] y = ">=" -> "GREATER_EQUAL" [] y = "+" -> "PLUS"
          [] y = "-" -> "MINUS" [] y = "*" -> "MULTIPLY" [] y = "/" -> "DIVIDE"
          [] y = "%" -> "MODULO" [] y = "=" -> "ASSIGN" [] y = "<" -> "LESS_THAN"
          [] y = ">" -> "GREATER_THAN" [] y = "(" -> "LPAREN" [] y = ")" -> "RPAREN"
          [] y = "{" -> "LBRACE" [] y = "}" -> "RBRACE" [] y = ";" -> "SEMICOLON"
          [] OTHER -> "COMMA"]

\* [a-zA-Z_][a-zA-Z0-9_]*, reclassified when it is a reserved word
Word(w) == IF w \in DOMAIN keywords THEN Tok(keywords[w], w) ELSE Tok("IDENTIFIER", w)

Sym(y) == Tok(patterns[y], y)

\* \d+
Num(ds) == TInt(ds)

\* \d+\.\d+
Flt(ds, fs) == TFloat(ds, fs)

\* a double-quoted string with the text t between the quotes
Txt(t) == Tok("STRING", t)

\* a character no pattern matches
Other(c) == Tok("", c)

\* tokenize() raises LexerError
LexerError(lexemes) == \E i \in 1..Len(lexemes) : lexemes[i].type = ""

tokenize(lexemes) == Append(lexemes, Tok("EOF", ""))

(***************************************************************************)
(* aurumCompiler: compile() and the results it hands back.                 *)
(***************************************************************************)
CompilationResult(ok, errs, ins, vs, fs) ==
    [success |-> ok, errors |-> errs, instructions |-> ins, variables |-> vs,
     functions |-> fs]

FailedCompilation(errs) ==
    CompilationResult(FALSE, errs, <<>>, [nm \in {} |-> 0], [nm \in {} |-> 0])

ExecutionResult(ok, out, errs) == [success |-> ok, output |-> out, errors |-> errs]

NoResult == ExecutionResult(FALSE, <<>>, <<>>)

SemanticErrors(errs) == [i \in 1..Len(errs) |-> "Error semantico: " \o errs[i]]

\* compile(): phase 4 done, g1 being the generator after generate(ast)
Generated(g1) ==
    IF g1.raised # ""
    THEN [result |-> FailedCompilation(<<"Error en generacion de codigo">>), generator |-> g1]
    ELSE [result |-> CompilationResult(TRUE, <<>>, g1.instructions, g1.variables,
                                       g1.functions),
          generator |-> g1]

\* phase 3 going on to the code generation whatever the diagnostics
AnalyzedGenerating(g, functions, semantic_errors) == Generated(generate(g, functions))

\* compile(): phase 3 done with the list semantic_errors
Analyzed(g, functions, semantic_errors) ==
    IF semantic_errors # <<>>
    THEN [result |-> FailedCompilation(SemanticErrors(semantic_errors)), generator |-> g]
    ELSE Generated(generate(g, functions))

\* compile(): phase 2 done, ast.ok = FALSE being a ParseError
Parsed(g, ast) ==
    IF ~ast.ok
    THEN [result |-> FailedCompilation(<<"Error sintactico">>), generator |-> g]
    ELSE Analyzed(g, ast.functions, analyze(ast.functions))

\* compile(source) with the code generator's fields g: the result and the
\* generator afterwards
compile(g, lexemes) ==
    IF LexerError(lexemes)
    THEN [result |-> FailedCompilation(<<"Error lexico">>), generator |-> g]
    ELSE Parsed(g, parse(tokenize(lexemes)))

\* class RuntimeError: the instruction_pointer a raise site leaves out
DefaultInstructionPointer == -1

RuntimeError(msg, ip) == [raised |-> TRUE, message |-> msg, instruction_pointer |-> ip]

NoError == [raised |-> FALSE, message |-> "", instruction_pointer |-> 0]

\* what leaves execute()'s loop when a handler raised exc, the fields being vm
Propagated(vm, exc) ==
    IF exc.type = "RuntimeError" THEN RuntimeError(exc.message, DefaultInstructionPointer)
    ELSE RuntimeError("Error interno: " \o exc.type, vm.instruction_pointer)

ErrorText(e) ==
    "Error de ejecucion en instruccion " \o IntStr(e.instruction_pointer) \o ": " \o e.message

get_output(vm) == vm.output

\* the except branch handing back an empty output, as the except Exception branch does
ExecutionFailureCleared(vm, e) ==
    ExecutionResult(FALSE, <<>>, <<"Error de ejecucion: " \o ErrorText(e)>>)

\* execute(): the result in the except RuntimeError branch
ExecutionFailure(vm, e) ==
    ExecutionResult(FALSE, get_output(vm), <<"Error de ejecucion: " \o ErrorText(e)>>)

\* execute(): the result when interpreter.execute() returned
ExecutionSuccess(vm) == ExecutionResult(TRUE, vm.output, <<>>)

(***************************************************************************)
(* The persisted form of a program.  A JSON value is [t, chars, s]: t is   *)
(* "null", "true", "false", "number" or "string"; a number carries the     *)
(* characters json.dump writes for it (repr of the int or float), a string *)
(* its text.  Floats are the ones whose repr is a finite decimal without   *)
(* exponent.                                                               *)
(***************************************************************************)
Json(t, chars, s) == [t |-> t, chars |-> chars, s |-> s]

\* the characters of str(i), i >= 0
RECURSIVE NatChars(_)
NatChars(i) ==
    IF i < 10 THEN <<DigitChars[i + 1]>>
    ELSE Append(NatChars(i \div 10), DigitChars[(i % 10) + 1])

\* the characters of rem/den after the decimal point (cut after left digits)
RECURSIVE FractionChars(_, _, _)
FractionChars(rem, den, left) ==
    IF rem = 0 \/ left = 0 THEN <<>>
    ELSE <<DigitChars[((rem * 10) \div den) + 1]>>
         \o FractionChars((rem * 10) % den, den, left - 1)

\* json.dump of one operand
JsonDump(v) ==
    CASE v.k = "none" -> Json("null", <<>>, "")
      [] v.k = "bool" -> Json(IF v.n = 1 THEN "true" ELSE "false", <<>>, "")
      [] v.k = "int" -> Json("number", (IF v.n < 0 THEN <<"-">> ELSE <<>>) \o NatChars(Abs(v.n)), "")
      [] v.k = "float" ->
             Json("number",
                  (IF v.n < 0 THEN <<"-">> ELSE <<>>) \o NatChars(Abs(v.n) \div v.d) \o <<".">>
                  \o (IF Abs(v.n) % v.d = 0 THEN <<"0">>
                      ELSE FractionChars(Abs(v.n) % v.d, v.d, 16)),
                  "")
      [] OTHER -> Json("string", <<>>, v.s)

\* json.load of one value: a number with a fraction part is a float, another an int
JsonLoad(j) ==
    CASE j.t = "null" -> NoneV
      [] j.t = "true" -> BoolV(TRUE)
      [] j.t = "false" -> BoolV(FALSE)
      [] j.t = "number" ->
             LET body == Unsigned(j.chars)
                 pt == CHOOSE i \in 1..Len(body) : body[i] = "."
                 whole == SubSeq(body, 1, pt - 1)
                 frac == SubSeq(body, pt + 1, Len(body))
             IN IF \E i \in 1..Len(body) : body[i] = "."
                THEN FloatV(Sign(j.chars) * (DigitsValue(whole) * Pow10(Len(frac))
                                             + DigitsValue(frac)),
                            Pow10(Len(frac)))
                ELSE IntV(Sign(j.chars) * DigitsValue(body))
      [] OTHER -> StrV(j.s)

\* save_to_file writing only the first operand of each instruction
save_to_file_first_argument(g) ==
    [instructions |->
        [i \in 1..Len(g.instructions) |->
            [op |-> g.instructions[i].op, args |-> <<JsonDump(g.instructions[i].arg1)>>]],
     variables |-> [nm \in DOMAIN g.variables |-> JsonDump(IntV(g.variables[nm]))],
     functions |-> [nm \in DOMAIN g.functions |-> JsonDump(IntV(g.functions[nm]))]]

\* the document save_to_file writes for the generator g
save_to_file(g) ==
    [instructions |->
        [i \in 1..Len(g.instructions) |->
            [op |-> g.instructions[i].op,
             args |-> <<JsonDump(g.instructions[i].arg1), JsonDump(g.instructions[i].arg2),
                        JsonDump(g.instructions[i].arg3)>>]],
     variables |-> [nm \in DOMAIN g.variables |-> JsonDump(IntV(g.variables[nm]))],
     functions |-> [nm \in DOMAIN g.functions |-> JsonDump(IntV(g.functions[nm]))]]

\* Instruction(op, *args) for the operands of inst_data that are not None
FileInstruction(inst_data) ==
    LET read == [k \in 1..Len(inst_data.args) |-> JsonLoad(inst_data.args[k])]
        args == SelectSeq(read, LAMBDA a : a # NoneV)
        Arg(k) == IF k <= Len(args) THEN args[k] ELSE NoneV
    IN [op |-> inst_data.op, arg1 |-> Arg(1), arg2 |-> Arg(2), arg3 |-> Arg(3)]

\* the interpreter vm after load_from_file read the document data
load_from_file(vm, data) ==
    load_program(vm,
                 [i \in 1..Len(data.instructions) |-> FileInstruction(data.instructions[i])],
                 [nm \in DOMAIN data.variables |-> JsonLoad(data.variables[nm]).n],
                 [nm \in DOMAIN data.functions |-> JsonLoad(data.functions[nm]).n])

(***************************************************************************)
(* Source texts.  The first ones are the programs the specification gives, *)
(* as it writes them and as the language accepts them; the others exercise *)
(* each statement, operator and builtin.                                   *)
(***************************************************************************)
\* func main()->void{ print("Hi"); int x=5; print(x+1); }
Source_HiSpec ==
    <<Word("func"), Word("main"), Sym("("), Sym(")"), Sym("->"), Word("void"), Sym("{"),
      Word("print"), Sym("("), Txt("Hi"), Sym(")"), Sym(";"), Word("int"), Word("x"),
      Sym("="), Num(<<5>>), Sym(";"), Word("print"), Sym("("), Word("x"), Sym("+"),
      Num(<<1>>), Sym(")"), Sym(";"), Sym("}")>>

\* func main()->void{ print("Hi") int x=5 print(x+1) }
Source_HiPlain ==
    <<Word("func"), Word("main"), Sym("("), Sym(")"), Sym("->"), Word("void"), Sym("{"),
      Word("print"), Sym("("), Txt("Hi"), Sym(")"), Word("int"), Word("x"), Sym("="),
      Num(<<5>>), Word("print"), Sym("("), Word("x"), Sym("+"), Num(<<1>>), Sym(")"),
      Sym("}")>>

\* func main()->void{ print("Hi") int x=5 print("" + (x+1)) }
Source_Hi ==
    <<Word("func"), Word("main"), Sym("("), Sym(")"), Sym("->"), Word("void"), Sym("{"),
      Word("print"), Sym("("), Txt("Hi"), Sym(")"), Word("int"), Word("x"), Sym("="),
      Num(<<5>>), Word("print"), Sym("("), Txt(""), Sym("+"), Sym("("), Word("x"),
      Sym("+"), Num(<<1>>), Sym(")"), Sym(")"), Sym("}")>>

\* func fact(int n)->int{ if(n<=1){return 1;} else {return n*fact(n-1);} } func main()->void{ print(fact(5)); }
Source_FactSpec ==
    <<Word("func"), Word("fact"), Sym("("), Word("int"), Word("n"), Sym(")"), Sym("->"),
      Word("int"), Sym("{"), Word("if"), Sym("("), Word("n"), Sym("<="), Num(<<1>>),
      Sym(")"), Sym("{"), Word("return"), Num(<<1>>), Sym(";"), Sym("}"), Word("else"),
      Sym("{"), Word("return"), Word("n"), Sym("*"), Word("fact"), Sym("("), Word("n"),
      Sym("-"), Num(<<1>>), Sym(")"), Sym(";"), Sym("}"), Sym("}"), Word("func"),
      Word("main"), Sym("("), Sym(")"), Sym("->"), Word("void"), Sym("{"), Word("print"),
      Sym("("), Word("fact"), Sym("("), Num(<<5>>), Sym(")"), Sym(")"), Sym(";"), Sym("}")>>

\* func fact(int n)->int{ if(n<=1){return 1} else {return n*fact(n-1)} } func main()->void{ print(fact(5)) }
Source_FactPlain ==
    <<Word("func"), Word("fact"), Sym("("), Word("int"), Word("n"), Sym(")"), Sym("->"),
      Word("int"), Sym("{"), Word("if"), Sym("("), Word("n"), Sym("<="), Num(<<1>>),
      Sym(")"), Sym("{"), Word("return"), Num(<<1>>), Sym("}"), Word("else"), Sym("{"),
      Word("return"), Word("n"), Sym("*"), Word("fact"), Sym("("), Word("n"), Sym("-"),
      Num(<<1>>), Sym(")"), Sym("}"), Sym("}"), Word("func"), Word("main"), Sym("("),
      Sym(")"), Sym("->"), Word("void"), Sym("{"), Word("print"), Sym("("), Word("fact"),
      Sym("("), Num(<<5>>), Sym(")"), Sym(")"), Sym("}")>>

\* func sub(int a, int b)->int{ return a-b } func main()->void{ print("" + sub(5, 3)) }
Source_Sub ==
    <<Word("func"), Word("sub"), Sym("("), Word("int"), Word("a"), Sym(","), Word("int"),
      Word("b"), Sym(")"), Sym("->"), Word("int"), Sym("{"), Word("return"), Word("a"),
      Sym("-"), Word("b"), Sym("}"), Word("func"), Word("main"), Sym("("), Sym(")"),
      Sym("->"), Word("void"), Sym("{"), Word("print"), Sym("("), Txt(""), Sym("+"),
      Word("sub"), Sym("("), Num(<<5>>), Sym(","), Num(<<3>>), Sym(")"), Sym(")"),
      Sym("}")>>

\* func pick(int a, string b, int c)->string{ return b + a + c } func main()->void{ print(pick(1, "x", 2)) }
Source_Pick ==
    <<Word("func"), Word("pick"), Sym("("), Word("int"), Word("a"), Sym(","),
      Word("string"), Word("b"), Sym(","), Word("int"), Word("c"), Sym(")"), Sym("->"),
      Word("string"), Sym("{"), Word("return"), Word("b"), Sym("+"), Word("a"), Sym("+"),
      Word("c"), Sym("}"), Word("func"), Word("main"), Sym("("), Sym(")"), Sym("->"),
      Word("void"), Sym("{"), Word("print"), Sym("("), Word("pick"), Sym("("), Num(<<1>>),
      Sym(","), Txt("x"), Sym(","), Num(<<2>>), Sym(")"), Sym(")"), Sym("}")>>

\* func main()->void{ if (true) { print("a") } } func L0()->void{ print("b") }
Source_LabelClash ==
    <<Word("func"), Word("main"), Sym("("), Sym(")"), Sym("->"), Word("void"), Sym("{"),
      Word("if"), Sym("("), Word("true"), Sym(")"), Sym("{"), Word("print"), Sym("("),
      Txt("a"), Sym(")"), Sym("}"), Sym("}"), Word("func"), Word("L0"), Sym("("), Sym(")"),
      Sym("->"), Word("void"), Sym("{"), Word("print"), Sym("("), Txt("b"), Sym(")"),
      Sym("}")>>

\* func L0()->void{ print("b") } func main()->void{ int x = 0 while (x < 1) { x = x + 1 } L0() print("c") }
Source_LabelClashCall ==
    <<Word("func"), Word("L0"), Sym("("), Sym(")"), Sym("->"), Word("void"), Sym("{"),
      Word("print"), Sym("("), Txt("b"), Sym(")"), Sym("}"), Word("func"), Word("main"),
      Sym("("), Sym(")"), Sym("->"), Word("void"), Sym("{"), Word("int"), Word("x"),
      Sym("="), Num(<<0>>), Word("while"), Sym("("), Word("x"), Sym("<"), Num(<<1>>),
      Sym(")"), Sym("{"), Word("x"), Sym("="), Word("x"), Sym("+"), Num(<<1>>), Sym("}"),
      Word("L0"), Sym("("), Sym(")"), Word("print"), Sym("("), Txt("c"), Sym(")"),
      Sym("}")>>

\* func main()->void{ int a=5; int b=0; print(a/b); }
Source_DivZeroSpec ==
    <<Word("func"), Word("main"), Sym("("), Sym(")"), Sym("->"), Word("void"), Sym("{"),
      Word("int"), Word("a"), Sym("="), Num(<<5>>), Sym(";"), Word("int"), Word("b"),
      Sym("="), Num(<<0>>), Sym(";"), Word("print"), Sym("("), Word("a"), Sym("/"),
      Word("b"), Sym(")"), Sym(";"), Sym("}")>>

\* func main()->void{ int a=5 int b=0 print(a/b) }
Source_DivZeroPlain ==
    <<Word("func"), Word("main"), Sym("("), Sym(")"), Sym("->"), Word("void"), Sym("{"),
      Word("int"), Word("a"), Sym("="), Num(<<5>>), Word("int"), Word("b"), Sym("="),
      Num(<<0>>), Word("print"), Sym("("), Word("a"), Sym("/"), Word("b"), Sym(")"),
      Sym("}")>>

\* func main()->void{ int a=5 int b=0 print("" + a/b) }
Source_DivZero ==
    <<Word("func"), Word("main"), Sym("("), Sym(")"), Sym("->"), Word("void"), Sym("{"),
      Word("int"), Word("a"), Sym("="), Num(<<5>>), Word("int"), Word("b"), Sym("="),
      Num(<<0>>), Word("print"), Sym("("), Txt(""), Sym("+"), Word("a"), Sym("/"),
      Word("b"), Sym(")"), Sym("}")>>

\* func main()->void{ print("one") write("two") int a=5 int b=0 print("" + a%b) print("three") }
Source_ModZeroLate ==
    <<Word("func"), Word("main"), Sym("("), Sym(")"), Sym("->"), Word("void"), Sym("{"),
      Word("print"), Sym("("), Txt("one"), Sym(")"), Word("write"), Sym("("), Txt("two"),
      Sym(")"), Word("int"), Word("a"), Sym("="), Num(<<5>>), Word("int"), Word("b"),
      Sym("="), Num(<<0>>), Word("print"), Sym("("), Txt(""), Sym("+"), Word("a"),
      Sym("%"), Word("b"), Sym(")"), Word("print"), Sym("("), Txt("three"), Sym(")"),
      Sym("}")>>

\* func main()->void{ int a=7 int b=2 int c = a/b print("" + c) print("" + 4/2) }
Source_IntDiv ==
    <<Word("func"), Word("main"), Sym("("), Sym(")"), Sym("->"), Word("void"), Sym("{"),
      Word("int"), Word("a"), Sym("="), Num(<<7>>), Word("int"), Word("b"), Sym("="),
      Num(<<2>>), Word("int"), Word("c"), Sym("="), Word("a"), Sym("/"), Word("b"),
      Word("print"), Sym("("), Txt(""), Sym("+"), Word("c"), Sym(")"), Word("print"),
      Sym("("), Txt(""), Sym("+"), Num(<<4>>), Sym("/"), Num(<<2>>), Sym(")"), Sym("}")>>

\* func main()->void{ int a=7 int b=2 print("" + (a+b)) print("" + (a-b)) print("" + a*b) print("" + a%b) print("" + (-a)) }
Source_IntArith ==
    <<Word("func"), Word("main"), Sym("("), Sym(")"), Sym("->"), Word("void"), Sym("{"),
      Word("int"), Word("a"), Sym("="), Num(<<7>>), Word("int"), Word("b"), Sym("="),
      Num(<<2>>), Word("print"), Sym("("), Txt(""), Sym("+"), Sym("("), Word("a"),
      Sym("+"), Word("b"), Sym(")"), Sym(")"), Word("print"), Sym("("), Txt(""), Sym("+"),
      Sym("("), Word("a"), Sym("-"), Word("b"), Sym(")"), Sym(")"), Word("print"),
      Sym("("), Txt(""), Sym("+"), Word("a"), Sym("*"), Word("b"), Sym(")"), Word("print"),
      Sym("("), Txt(""), Sym("+"), Word("a"), Sym("%"), Word("b"), Sym(")"), Word("print"),
      Sym("("), Txt(""), Sym("+"), Sym("("), Sym("-"), Word("a"), Sym(")"), Sym(")"),
      Sym("}")>>

\* func main()->void{ bool t = true bool f = not t if (t and f or t) { print("y") } if (f or f) { print("n") } }
Source_Logic ==
    <<Word("func"), Word("main"), Sym("("), Sym(")"), Sym("->"), Word("void"), Sym("{"),
      Word("bool"), Word("t"), Sym("="), Word("true"), Word("bool"), Word("f"), Sym("="),
      Word("not"), Word("t"), Word("if"), Sym("("), Word("t"), Word("and"), Word("f"),
      Word("or"), Word("t"), Sym(")"), Sym("{"), Word("print"), Sym("("), Txt("y"),
      Sym(")"), Sym("}"), Word("if"), Sym("("), Word("f"), Word("or"), Word("f"), Sym(")"),
      Sym("{"), Word("print"), Sym("("), Txt("n"), Sym(")"), Sym("}"), Sym("}")>>

\* func main()->void{ if (1 != 2 and 2 >= 2) { print("a") } if (1 < 2 and 2 > 1) { print("b") } }
Source_Compare ==
    <<Word("func"), Word("main"), Sym("("), Sym(")"), Sym("->"), Word("void"), Sym("{"),
      Word("if"), Sym("("), Num(<<1>>), Sym("!="), Num(<<2>>), Word("and"), Num(<<2>>),
      Sym(">="), Num(<<2>>), Sym(")"), Sym("{"), Word("print"), Sym("("), Txt("a"),
      Sym(")"), Sym("}"), Word("if"), Sym("("), Num(<<1>>), Sym("<"), Num(<<2>>),
      Word("and"), Num(<<2>>), Sym(">"), Num(<<1>>), Sym(")"), Sym("{"), Word("print"),
      Sym("("), Txt("b"), Sym(")"), Sym("}"), Sym("}")>>

\* func main()->void{ if (1 <= 1 and 3 == 3) { print("c") } if (2 <= 1 or 3 != 3 or 1 > 1) { print("d") } }
Source_CompareEq ==
    <<Word("func"), Word("main"), Sym("("), Sym(")"), Sym("->"), Word("void"), Sym("{"),
      Word("if"), Sym("("), Num(<<1>>), Sym("<="), Num(<<1>>), Word("and"), Num(<<3>>),
      Sym("=="), Num(<<3>>), Sym(")"), Sym("{"), Word("print"), Sym("("), Txt("c"),
      Sym(")"), Sym("}"), Word("if"), Sym("("), Num(<<2>>), Sym("<="), Num(<<1>>),
      Word("or"), Num(<<3>>), Sym("!="), Num(<<3>>), Word("or"), Num(<<1>>), Sym(">"),
      Num(<<1>>), Sym(")"), Sym("{"), Word("print"), Sym("("), Txt("d"), Sym(")"),
      Sym("}"), Sym("}")>>

\* func main()->void{ float h = 1.5 float q = h + 2.25 print("" + q) print("" + h * 2) }
Source_Floats ==
    <<Word("func"), Word("main"), Sym("("), Sym(")"), Sym("->"), Word("void"), Sym("{"),
      Word("float"), Word("h"), Sym("="), Flt(<<1>>, <<5>>), Word("float"), Word("q"),
      Sym("="), Word("h"), Sym("+"), Flt(<<2>>, <<2, 5>>), Word("print"), Sym("("),
      Txt(""), Sym("+"), Word("q"), Sym(")"), Word("print"), Sym("("), Txt(""), Sym("+"),
      Word("h"), Sym("*"), Num(<<2>>), Sym(")"), Sym("}")>>

\* func main()->void{ string s = read() string t = read() print("got " + s) print("got " + t) }
Source_Read ==
    <<Word("func"), Word("main"), Sym("("), Sym(")"), Sym("->"), Word("void"), Sym("{"),
      Word("string"), Word("s"), Sym("="), Word("read"), Sym("("), Sym(")"),
      Word("string"), Word("t"), Sym("="), Word("read"), Sym("("), Sym(")"), Word("print"),
      Sym("("), Txt("got "), Sym("+"), Word("s"), Sym(")"), Word("print"), Sym("("),
      Txt("got "), Sym("+"), Word("t"), Sym(")"), Sym("}")>>

\* func main()->void{ string s = read() print("got " + s) }
Source_ReadNone ==
    <<Word("func"), Word("main"), Sym("("), Sym(")"), Sym("->"), Word("void"), Sym("{"),
      Word("string"), Word("s"), Sym("="), Word("read"), Sym("("), Sym(")"), Word("print"),
      Sym("("), Txt("got "), Sym("+"), Word("s"), Sym(")"), Sym("}")>>

\* func main()->void{ int r = g(1) print("r") } func g(int k)->int{ if (k > 5) { return 1 } elif (k > 2) { return 2 } }
Source_FallEnd ==
    <<Word("func"), Word("main"), Sym("("), Sym(")"), Sym("->"), Word("void"), Sym("{"),
      Word("int"), Word("r"), Sym("="), Word("g"), Sym("("), Num(<<1>>), Sym(")"),
      Word("print"), Sym("("), Txt("r"), Sym(")"), Sym("}"), Word("func"), Word("g"),
      Sym("("), Word("int"), Word("k"), Sym(")"), Sym("->"), Word("int"), Sym("{"),
      Word("if"), Sym("("), Word("k"), Sym(">"), Num(<<5>>), Sym(")"), Sym("{"),
      Word("return"), Num(<<1>>), Sym("}"), Word("elif"), Sym("("), Word("k"), Sym(">"),
      Num(<<2>>), Sym(")"), Sym("{"), Word("return"), Num(<<2>>), Sym("}"), Sym("}")>>

\* func g(int k)->int{ if (k > 5) { return 1 } elif (k > 2) { return 2 } } func h()->void{ print("h") } func main()->void{ int r = g(1) print("r") }
Source_FallInto ==
    <<Word("func"), Word("g"), Sym("("), Word("int"), Word("k"), Sym(")"), Sym("->"),
      Word("int"), Sym("{"), Word("if"), Sym("("), Word("k"), Sym(">"), Num(<<5>>),
      Sym(")"), Sym("{"), Word("return"), Num(<<1>>), Sym("}"), Word("elif"), Sym("("),
      Word("k"), Sym(">"), Num(<<2>>), Sym(")"), Sym("{"), Word("return"), Num(<<2>>),
      Sym("}"), Sym("}"), Word("func"), Word("h"), Sym("("), Sym(")"), Sym("->"),
      Word("void"), Sym("{"), Word("print"), Sym("("), Txt("h"), Sym(")"), Sym("}"),
      Word("func"), Word("main"), Sym("("), Sym(")"), Sym("->"), Word("void"), Sym("{"),
      Word("int"), Word("r"), Sym("="), Word("g"), Sym("("), Num(<<1>>), Sym(")"),
      Word("print"), Sym("("), Txt("r"), Sym(")"), Sym("}")>>

\* func d(int k)->int{ return 1 % k } func main()->void{ print("s") int x = 1 + d(0) print("t") }
Source_NestedFail ==
    <<Word("func"), Word("d"), Sym("("), Word("int"), Word("k"), Sym(")"), Sym("->"),
      Word("int"), Sym("{"), Word("return"), Num(<<1>>), Sym("%"), Word("k"), Sym("}"),
      Word("func"), Word("main"), Sym("("), Sym(")"), Sym("->"), Word("void"), Sym("{"),
      Word("print"), Sym("("), Txt("s"), Sym(")"), Word("int"), Word("x"), Sym("="),
      Num(<<1>>), Sym("+"), Word("d"), Sym("("), Num(<<0>>), Sym(")"), Word("print"),
      Sym("("), Txt("t"), Sym(")"), Sym("}")>>

\* func main()->void{ int r = g(1) print("r") } func g(int k)->int{ if (k > 5) { return 1 } }
Source_IfNoElse ==
    <<Word("func"), Word("main"), Sym("("), Sym(")"), Sym("->"), Word("void"), Sym("{"),
      Word("int"), Word("r"), Sym("="), Word("g"), Sym("("), Num(<<1>>), Sym(")"),
      Word("print"), Sym("("), Txt("r"), Sym(")"), Sym("}"), Word("func"), Word("g"),
      Sym("("), Word("int"), Word("k"), Sym(")"), Sym("->"), Word("int"), Sym("{"),
      Word("if"), Sym("("), Word("k"), Sym(">"), Num(<<5>>), Sym(")"), Sym("{"),
      Word("return"), Num(<<1>>), Sym("}"), Sym("}")>>

\* func main()->void{ int r = g(3) print("r") } func g(int k)->int{ if (k > 5) { return 1 } elif (k > 2) { print("m") } else { return 3 } }
Source_ElifGap ==
    <<Word("func"), Word("main"), Sym("("), Sym(")"), Sym("->"), Word("void"), Sym("{"),
      Word("int"), Word("r"), Sym("="), Word("g"), Sym("("), Num(<<3>>), Sym(")"),
      Word("print"), Sym("("), Txt("r"), Sym(")"), Sym("}"), Word("func"), Word("g"),
      Sym("("), Word("int"), Word("k"), Sym(")"), Sym("->"), Word("int"), Sym("{"),
      Word("if"), Sym("("), Word("k"), Sym(">"), Num(<<5>>), Sym(")"), Sym("{"),
      Word("return"), Num(<<1>>), Sym("}"), Word("elif"), Sym("("), Word("k"), Sym(">"),
      Num(<<2>>), Sym(")"), Sym("{"), Word("print"), Sym("("), Txt("m"), Sym(")"),
      Sym("}"), Word("else"), Sym("{"), Word("return"), Num(<<3>>), Sym("}"), Sym("}")>>

\* func main()->void{ int x = 7 for (int x = 0; x < 2; x = x + 1) { print("" + x) } print("" + x) }
Source_ForShadow ==
    <<Word("func"), Word("main"), Sym("("), Sym(")"), Sym("->"), Word("void"), Sym("{"),
      Word("int"), Word("x"), Sym("="), Num(<<7>>), Word("for"), Sym("("), Word("int"),
      Word("x"), Sym("="), Num(<<0>>), Sym(";"), Word("x"), Sym("<"), Num(<<2>>), Sym(";"),
      Word("x"), Sym("="), Word("x"), Sym("+"), Num(<<1>>), Sym(")"), Sym("{"),
      Word("print"), Sym("("), Txt(""), Sym("+"), Word("x"), Sym(")"), Sym("}"),
      Word("print"), Sym("("), Txt(""), Sym("+"), Word("x"), Sym(")"), Sym("}")>>

\* func g(int k)->int{ int k = 2 return k } func main()->void{ print("" + g(1)) }
Source_ParamRedecl ==
    <<Word("func"), Word("g"), Sym("("), Word("int"), Word("k"), Sym(")"), Sym("->"),
      Word("int"), Sym("{"), Word("int"), Word("k"), Sym("="), Num(<<2>>), Word("return"),
      Word("k"), Sym("}"), Word("func"), Word("main"), Sym("("), Sym(")"), Sym("->"),
      Word("void"), Sym("{"), Word("print"), Sym("("), Txt(""), Sym("+"), Word("g"),
      Sym("("), Num(<<1>>), Sym(")"), Sym(")"), Sym("}")>>

\* func main()->void{ int x = 7 if (x > 1) { int x = 2 } }
Source_IfRedecl ==
    <<Word("func"), Word("main"), Sym("("), Sym(")"), Sym("->"), Word("void"), Sym("{"),
      Word("int"), Word("x"), Sym("="), Num(<<7>>), Word("if"), Sym("("), Word("x"),
      Sym(">"), Num(<<1>>), Sym(")"), Sym("{"), Word("int"), Word("x"), Sym("="),
      Num(<<2>>), Sym("}"), Sym("}")>>

\* func main()->void{ int x = 1 if (x > 0) { break } elif (x < 0) { continue } }
Source_BreakInIf ==
    <<Word("func"), Word("main"), Sym("("), Sym(")"), Sym("->"), Word("void"), Sym("{"),
      Word("int"), Word("x"), Sym("="), Num(<<1>>), Word("if"), Sym("("), Word("x"),
      Sym(">"), Num(<<0>>), Sym(")"), Sym("{"), Word("break"), Sym("}"), Word("elif"),
      Sym("("), Word("x"), Sym("<"), Num(<<0>>), Sym(")"), Sym("{"), Word("continue"),
      Sym("}"), Sym("}")>>

\* func main()->void{ int x = 0 while (x < 3) { for (int i = 0; i < 1; i = i + 1) { x = x + 1 } if (x > 1) { break } } print("" + x) }
Source_BreakAfterInner ==
    <<Word("func"), Word("main"), Sym("("), Sym(")"), Sym("->"), Word("void"), Sym("{"),
      Word("int"), Word("x"), Sym("="), Num(<<0>>), Word("while"), Sym("("), Word("x"),
      Sym("<"), Num(<<3>>), Sym(")"), Sym("{"), Word("for"), Sym("("), Word("int"),
      Word("i"), Sym("="), Num(<<0>>), Sym(";"), Word("i"), Sym("<"), Num(<<1>>), Sym(";"),
      Word("i"), Sym("="), Word("i"), Sym("+"), Num(<<1>>), Sym(")"), Sym("{"), Word("x"),
      Sym("="), Word("x"), Sym("+"), Num(<<1>>), Sym("}"), Word("if"), Sym("("), Word("x"),
      Sym(">"), Num(<<1>>), Sym(")"), Sym("{"), Word("break"), Sym("}"), Sym("}"),
      Word("print"), Sym("("), Txt(""), Sym("+"), Word("x"), Sym(")"), Sym("}")>>

\* func main()->void{ int x = 0 while (x < 1) { x = x + 1 } continue }
Source_ContinueAfterLoop ==
    <<Word("func"), Word("main"), Sym("("), Sym(")"), Sym("->"), Word("void"), Sym("{"),
      Word("int"), Word("x"), Sym("="), Num(<<0>>), Word("while"), Sym("("), Word("x"),
      Sym("<"), Num(<<1>>), Sym(")"), Sym("{"), Word("x"), Sym("="), Word("x"), Sym("+"),
      Num(<<1>>), Sym("}"), Word("continue"), Sym("}")>>

\* func main()->void{ float h = 1.5 if (1 < h) { print("lt") } if (h >= 2) { print("ge") } }
Source_CompareMixed ==
    <<Word("func"), Word("main"), Sym("("), Sym(")"), Sym("->"), Word("void"), Sym("{"),
      Word("float"), Word("h"), Sym("="), Flt(<<1>>, <<5>>), Word("if"), Sym("("),
      Num(<<1>>), Sym("<"), Word("h"), Sym(")"), Sym("{"), Word("print"), Sym("("),
      Txt("lt"), Sym(")"), Sym("}"), Word("if"), Sym("("), Word("h"), Sym(">="),
      Num(<<2>>), Sym(")"), Sym("{"), Word("print"), Sym("("), Txt("ge"), Sym(")"),
      Sym("}"), Sym("}")>>

\* func main()->void{ float h = 2.0 if (h == 2) { print("eq") } if (1 != h) { print("ne") } }
Source_EqualMixed ==
    <<Word("func"), Word("main"), Sym("("), Sym(")"), Sym("->"), Word("void"), Sym("{"),
      Word("float"), Word("h"), Sym("="), Flt(<<2>>, <<0>>), Word("if"), Sym("("),
      Word("h"), Sym("=="), Num(<<2>>), Sym(")"), Sym("{"), Word("print"), Sym("("),
      Txt("eq"), Sym(")"), Sym("}"), Word("if"), Sym("("), Num(<<1>>), Sym("!="),
      Word("h"), Sym(")"), Sym("{"), Word("print"), Sym("("), Txt("ne"), Sym(")"),
      Sym("}"), Sym("}")>>

\* func main()->void{ if ("a" < 1) { print("x") } if (true == 1) { print("y") } }
Source_CompareString ==
    <<Word("func"), Word("main"), Sym("("), Sym(")"), Sym("->"), Word("void"), Sym("{"),
      Word("if"), Sym("("), Txt("a"), Sym("<"), Num(<<1>>), Sym(")"), Sym("{"),
      Word("print"), Sym("("), Txt("x"), Sym(")"), Sym("}"), Word("if"), Sym("("),
      Word("true"), Sym("=="), Num(<<1>>), Sym(")"), Sym("{"), Word("print"), Sym("("),
      Txt("y"), Sym(")"), Sym("}"), Sym("}")>>

\* func main()->void{ print("n=" + 5) print(5 + "=n") print("" + 1.5 + true) int k = 2 + 3 print("k" + k) }
Source_Coerce ==
    <<Word("func"), Word("main"), Sym("("), Sym(")"), Sym("->"), Word("void"), Sym("{"),
      Word("print"), Sym("("), Txt("n="), Sym("+"), Num(<<5>>), Sym(")"), Word("print"),
      Sym("("), Num(<<5>>), Sym("+"), Txt("=n"), Sym(")"), Word("print"), Sym("("),
      Txt(""), Sym("+"), Flt(<<1>>, <<5>>), Sym("+"), Word("true"), Sym(")"), Word("int"),
      Word("k"), Sym("="), Num(<<2>>), Sym("+"), Num(<<3>>), Word("print"), Sym("("),
      Txt("k"), Sym("+"), Word("k"), Sym(")"), Sym("}")>>

\* func main()->void{ int x = 1 @ 2 print("x") }
Source_LexError ==
    <<Word("func"), Word("main"), Sym("("), Sym(")"), Sym("->"), Word("void"), Sym("{"),
      Word("int"), Word("x"), Sym("="), Num(<<1>>), Other("@"), Num(<<2>>), Word("print"),
      Sym("("), Txt("x"), Sym(")"), Sym("}")>>

\* func main()->void{ for (int i = 0; i < 3; i = i + 1) { if (i == 1) { continue } print("" + i) } print("end") }
Source_ForContinue ==
    <<Word("func"), Word("main"), Sym("("), Sym(")"), Sym("->"), Word("void"), Sym("{"),
      Word("for"), Sym("("), Word("int"), Word("i"), Sym("="), Num(<<0>>), Sym(";"),
      Word("i"), Sym("<"), Num(<<3>>), Sym(";"), Word("i"), Sym("="), Word("i"), Sym("+"),
      Num(<<1>>), Sym(")"), Sym("{"), Word("if"), Sym("("), Word("i"), Sym("=="),
      Num(<<1>>), Sym(")"), Sym("{"), Word("continue"), Sym("}"), Word("print"), Sym("("),
      Txt(""), Sym("+"), Word("i"), Sym(")"), Sym("}"), Word("print"), Sym("("),
      Txt("end"), Sym(")"), Sym("}")>>

\* func main()->void{ int x = 0 while (x < 3) { x = x + 1 if (x == 2) { continue } print("" + x) } print("end") }
Source_WhileContinue ==
    <<Word("func"), Word("main"), Sym("("), Sym(")"), Sym("->"), Word("void"), Sym("{"),
      Word("int"), Word("x"), Sym("="), Num(<<0>>), Word("while"), Sym("("), Word("x"),
      Sym("<"), Num(<<3>>), Sym(")"), Sym("{"), Word("x"), Sym("="), Word("x"), Sym("+"),
      Num(<<1>>), Word("if"), Sym("("), Word("x"), Sym("=="), Num(<<2>>), Sym(")"),
      Sym("{"), Word("continue"), Sym("}"), Word("print"), Sym("("), Txt(""), Sym("+"),
      Word("x"), Sym(")"), Sym("}"), Word("print"), Sym("("), Txt("end"), Sym(")"),
      Sym("}")>>

\* func main()->void{ int x = 0 while (x < 3) { x = x + 1 for (int i = 0; i < 2; i = i + 1) { break } if (x == 1) { continue } if (x == 3) { break } print("" + x) } print("end") }
Source_NestedLoops ==
    <<Word("func"), Word("main"), Sym("("), Sym(")"), Sym("->"), Word("void"), Sym("{"),
      Word("int"), Word("x"), Sym("="), Num(<<0>>), Word("while"), Sym("("), Word("x"),
      Sym("<"), Num(<<3>>), Sym(")"), Sym("{"), Word("x"), Sym("="), Word("x"), Sym("+"),
      Num(<<1>>), Word("for"), Sym("("), Word("int"), Word("i"), Sym("="), Num(<<0>>),
      Sym(";"), Word("i"), Sym("<"), Num(<<2>>), Sym(";"), Word("i"), Sym("="), Word("i"),
      Sym("+"), Num(<<1>>), Sym(")"), Sym("{"), Word("break"), Sym("}"), Word("if"),
      Sym("("), Word("x"), Sym("=="), Num(<<1>>), Sym(")"), Sym("{"), Word("continue"),
      Sym("}"), Word("if"), Sym("("), Word("x"), Sym("=="), Num(<<3>>), Sym(")"), Sym("{"),
      Word("break"), Sym("}"), Word("print"), Sym("("), Txt(""), Sym("+"), Word("x"),
      Sym(")"), Sym("}"), Word("print"), Sym("("), Txt("end"), Sym(")"), Sym("}")>>

\* func main()->void{ for (int i = 0; i < 2; i = i + 1) { if (i == 0) { continue } print("" + i) } print("end") } func L1()->void{ print("in L1") }
Source_ContinueClash ==
    <<Word("func"), Word("main"), Sym("("), Sym(")"), Sym("->"), Word("void"), Sym("{"),
      Word("for"), Sym("("), Word("int"), Word("i"), Sym("="), Num(<<0>>), Sym(";"),
      Word("i"), Sym("<"), Num(<<2>>), Sym(";"), Word("i"), Sym("="), Word("i"), Sym("+"),
      Num(<<1>>), Sym(")"), Sym("{"), Word("if"), Sym("("), Word("i"), Sym("=="),
      Num(<<0>>), Sym(")"), Sym("{"), Word("continue"), Sym("}"), Word("print"), Sym("("),
      Txt(""), Sym("+"), Word("i"), Sym(")"), Sym("}"), Word("print"), Sym("("),
      Txt("end"), Sym(")"), Sym("}"), Word("func"), Word("L1"), Sym("("), Sym(")"),
      Sym("->"), Word("void"), Sym("{"), Word("print"), Sym("("), Txt("in L1"), Sym(")"),
      Sym("}")>>

\* func g(int x)->int{ x = x + 1 return x } func main()->void{ int x = 5 int y = g(1) print("" + x) for (int y = 0; y < 1; y = y + 1) { int z = 3 } print("" + y) }
Source_SharedName ==
    <<Word("func"), Word("g"), Sym("("), Word("int"), Word("x"), Sym(")"), Sym("->"),
      Word("int"), Sym("{"), Word("x"), Sym("="), Word("x"), Sym("+"), Num(<<1>>),
      Word("return"), Word("x"), Sym("}"), Word("func"), Word("main"), Sym("("), Sym(")"),
      Sym("->"), Word("void"), Sym("{"), Word("int"), Word("x"), Sym("="), Num(<<5>>),
      Word("int"), Word("y"), Sym("="), Word("g"), Sym("("), Num(<<1>>), Sym(")"),
      Word("print"), Sym("("), Txt(""), Sym("+"), Word("x"), Sym(")"), Word("for"),
      Sym("("), Word("int"), Word("y"), Sym("="), Num(<<0>>), Sym(";"), Word("y"),
      Sym("<"), Num(<<1>>), Sym(";"), Word("y"), Sym("="), Word("y"), Sym("+"), Num(<<1>>),
      Sym(")"), Sym("{"), Word("int"), Word("z"), Sym("="), Num(<<3>>), Sym("}"),
      Word("print"), Sym("("), Txt(""), Sym("+"), Word("y"), Sym(")"), Sym("}")>>

\* func main()->void{ string s = read() print("got " + s) s = read() print("got " + s) s = read() print("got " + s) s = read() print("got " + s) s = read() print("got " + s + read()) }
Source_ReadMany ==
    <<Word("func"), Word("main"), Sym("("), Sym(")"), Sym("->"), Word("void"), Sym("{"),
      Word("string"), Word("s"), Sym("="), Word("read"), Sym("("), Sym(")"), Word("print"),
      Sym("("), Txt("got "), Sym("+"), Word("s"), Sym(")"), Word("s"), Sym("="),
      Word("read"), Sym("("), Sym(")"), Word("print"), Sym("("), Txt("got "), Sym("+"),
      Word("s"), Sym(")"), Word("s"), Sym("="), Word("read"), Sym("("), Sym(")"),
      Word("print"), Sym("("), Txt("got "), Sym("+"), Word("s"), Sym(")"), Word("s"),
      Sym("="), Word("read"), Sym("("), Sym(")"), Word("print"), Sym("("), Txt("got "),
      Sym("+"), Word("s"), Sym(")"), Word("s"), Sym("="), Word("read"), Sym("("), Sym(")"),
      Word("print"), Sym("("), Txt("got "), Sym("+"), Word("s"), Sym("+"), Word("read"),
      Sym("("), Sym(")"), Sym(")"), Sym("}")>>

\* func main()->void{ int x = 0 if (x > 1) { int y = 1 } print("a") print("" + y) }
Source_IfDeclared ==
    <<Word("func"), Word("main"), Sym("("), Sym(")"), Sym("->"), Word("void"), Sym("{"),
      Word("int"), Word("x"), Sym("="), Num(<<0>>), Word("if"), Sym("("), Word("x"),
      Sym(">"), Num(<<1>>), Sym(")"), Sym("{"), Word("int"), Word("y"), Sym("="),
      Num(<<1>>), Sym("}"), Word("print"), Sym("("), Txt("a"), Sym(")"), Word("print"),
      Sym("("), Txt(""), Sym("+"), Word("y"), Sym(")"), Sym("}")>>

\* func main()->void{ int x = 2 while (x > 1) { int y = 1 x = 0 } print("" + y) }
Source_WhileDeclared ==
    <<Word("func"), Word("main"), Sym("("), Sym(")"), Sym("->"), Word("void"), Sym("{"),
      Word("int"), Word("x"), Sym("="), Num(<<2>>), Word("while"), Sym("("), Word("x"),
      Sym(">"), Num(<<1>>), Sym(")"), Sym("{"), Word("int"), Word("y"), Sym("="),
      Num(<<1>>), Word("x"), Sym("="), Num(<<0>>), Sym("}"), Word("print"), Sym("("),
      Txt(""), Sym("+"), Word("y"), Sym(")"), Sym("}")>>

\* func main()->void{ print(read() + 1) string s = read() print(s + 1) }
Source_ReadPlus ==
    <<Word("func"), Word("main"), Sym("("), Sym(")"), Sym("->"), Word("void"), Sym("{"),
      Word("print"), Sym("("), Word("read"), Sym("("), Sym(")"), Sym("+"), Num(<<1>>),
      Sym(")"), Word("string"), Word("s"), Sym("="), Word("read"), Sym("("), Sym(")"),
      Word("print"), Sym("("), Word("s"), Sym("+"), Num(<<1>>), Sym(")"), Sym("}")>>

\* func t(string m)->bool{ print(m) return true } func main()->void{ if (t("l") and t("r")) { print("w") } if (false and t("a")) { print("x") } if (true or t("b")) { print("y") } if (true or 1 / 0 == 1) { print("z") } print("end") }
Source_NoShortCircuit ==
    <<Word("func"), Word("t"), Sym("("), Word("string"), Word("m"), Sym(")"), Sym("->"),
      Word("bool"), Sym("{"), Word("print"), Sym("("), Word("m"), Sym(")"), Word("return"),
      Word("true"), Sym("}"), Word("func"), Word("main"), Sym("("), Sym(")"), Sym("->"),
      Word("void"), Sym("{"), Word("if"), Sym("("), Word("t"), Sym("("), Txt("l"),
      Sym(")"), Word("and"), Word("t"), Sym("("), Txt("r"), Sym(")"), Sym(")"), Sym("{"),
      Word("print"), Sym("("), Txt("w"), Sym(")"), Sym("}"), Word("if"), Sym("("),
      Word("false"), Word("and"), Word("t"), Sym("("), Txt("a"), Sym(")"), Sym(")"),
      Sym("{"), Word("print"), Sym("("), Txt("x"), Sym(")"), Sym("}"), Word("if"),
      Sym("("), Word("true"), Word("or"), Word("t"), Sym("("), Txt("b"), Sym(")"),
      Sym(")"), Sym("{"), Word("print"), Sym("("), Txt("y"), Sym(")"), Sym("}"),
      Word("if"), Sym("("), Word("true"), Word("or"), Num(<<1>>), Sym("/"), Num(<<0>>),
      Sym("=="), Num(<<1>>), Sym(")"), Sym("{"), Word("print"), Sym("("), Txt("z"),
      Sym(")"), Sym("}"), Word("print"), Sym("("), Txt("end"), Sym(")"), Sym("}")>>

\* func g(int k)->int{ if (k > 5) { print("big") } elif (k > 2) { return 1 } } func main()->void{ int r = g(9) print("r") }
Source_ElifReturn ==
    <<Word("func"), Word("g"), Sym("("), Word("int"), Word("k"), Sym(")"), Sym("->"),
      Word("int"), Sym("{"), Word("if"), Sym("("), Word("k"), Sym(">"), Num(<<5>>),
      Sym(")"), Sym("{"), Word("print"), Sym("("), Txt("big"), Sym(")"), Sym("}"),
      Word("elif"), Sym("("), Word("k"), Sym(">"), Num(<<2>>), Sym(")"), Sym("{"),
      Word("return"), Num(<<1>>), Sym("}"), Sym("}"), Word("func"), Word("main"), Sym("("),
      Sym(")"), Sym("->"), Word("void"), Sym("{"), Word("int"), Word("r"), Sym("="),
      Word("g"), Sym("("), Num(<<9>>), Sym(")"), Word("print"), Sym("("), Txt("r"),
      Sym(")"), Sym("}")>>

\* func f()->void{ return }
Source_NoMain ==
    <<Word("func"), Word("f"), Sym("("), Sym(")"), Sym("->"), Word("void"), Sym("{"),
      Word("return"), Sym("}")>>

\* func main()->void{ break }
Source_BreakOutside ==
    <<Word("func"), Word("main"), Sym("("), Sym(")"), Sym("->"), Word("void"), Sym("{"),
      Word("break"), Sym("}")>>

\* func main()->void{ y = 1 }
Source_Undeclared ==
    <<Word("func"), Word("main"), Sym("("), Sym(")"), Sym("->"), Word("void"), Sym("{"),
      Word("y"), Sym("="), Num(<<1>>), Sym("}")>>

\* func f(int a, int b)->int{ if (a > b) { return a - b } return b } func v(int k)->void{ if (k > 0) { return } print("v") } func main()->void{ int x = 3
FamilyPrefix ==
    <<Word("func"), Word("f"), Sym("("), Word("int"), Word("a"), Sym(","), Word("int"),
      Word("b"), Sym(")"), Sym("->"), Word("int"), Sym("{"), Word("if"), Sym("("),
      Word("a"), Sym(">"), Word("b"), Sym(")"), Sym("{"), Word("return"), Word("a"),
      Sym("-"), Word("b"), Sym("}"), Word("return"), Word("b"), Sym("}"), Word("func"),
      Word("v"), Sym("("), Word("int"), Word("k"), Sym(")"), Sym("->"), Word("void"),
      Sym("{"), Word("if"), Sym("("), Word("k"), Sym(">"), Num(<<0>>), Sym(")"), Sym("{"),
      Word("return"), Sym("}"), Word("print"), Sym("("), Txt("v"), Sym(")"), Sym("}"),
      Word("func"), Word("main"), Sym("("), Sym(")"), Sym("->"), Word("void"), Sym("{"),
      Word("int"), Word("x"), Sym("="), Num(<<3>>)>>

\* x = f(x, 2) + 1
Pool_1 ==
    <<Word("x"), Sym("="), Word("f"), Sym("("), Word("x"), Sym(","), Num(<<2>>), Sym(")"),
      Sym("+"), Num(<<1>>)>>

\* v(x - 3)
Pool_2 ==
    <<Word("v"), Sym("("), Word("x"), Sym("-"), Num(<<3>>), Sym(")")>>

\* f(1, x)
Pool_3 ==
    <<Word("f"), Sym("("), Num(<<1>>), Sym(","), Word("x"), Sym(")")>>

\* if (x > 3) { v(0) } elif (x == 3) { x = 0 } else { return }
Pool_4 ==
    <<Word("if"), Sym("("), Word("x"), Sym(">"), Num(<<3>>), Sym(")"), Sym("{"), Word("v"),
      Sym("("), Num(<<0>>), Sym(")"), Sym("}"), Word("elif"), Sym("("), Word("x"),
      Sym("=="), Num(<<3>>), Sym(")"), Sym("{"), Word("x"), Sym("="), Num(<<0>>), Sym("}"),
      Word("else"), Sym("{"), Word("return"), Sym("}")>>

\* while (x > 0) { x = x - 1 if (x == 1) { break } continue }
Pool_5 ==
    <<Word("while"), Sym("("), Word("x"), Sym(">"), Num(<<0>>), Sym(")"), Sym("{"),
      Word("x"), Sym("="), Word("x"), Sym("-"), Num(<<1>>), Word("if"), Sym("("),
      Word("x"), Sym("=="), Num(<<1>>), Sym(")"), Sym("{"), Word("break"), Sym("}"),
      Word("continue"), Sym("}")>>

\* for (int i = 0; i < 2; i = i + 1) { if (i == 1) { continue } print("" + i) }
Pool_6 ==
    <<Word("for"), Sym("("), Word("int"), Word("i"), Sym("="), Num(<<0>>), Sym(";"),
      Word("i"), Sym("<"), Num(<<2>>), Sym(";"), Word("i"), Sym("="), Word("i"), Sym("+"),
      Num(<<1>>), Sym(")"), Sym("{"), Word("if"), Sym("("), Word("i"), Sym("=="),
      Num(<<1>>), Sym(")"), Sym("{"), Word("continue"), Sym("}"), Word("print"), Sym("("),
      Txt(""), Sym("+"), Word("i"), Sym(")"), Sym("}")>>

\* return
Pool_7 ==
    <<Word("return")>>

\* print("" + x)
Pool_8 ==
    <<Word("print"), Sym("("), Txt(""), Sym("+"), Word("x"), Sym(")")>>

\* int x = 1
Pool_9 ==
    <<Word("int"), Word("x"), Sym("="), Num(<<1>>)>>

(***************************************************************************)
(* Instruction lists handed to execute() directly, as a caller that loads  *)
(* a compiled artifact does.  Each runs a print and then one instruction   *)
(* chosen to fail or to end the run.                                       *)
(***************************************************************************)
BytecodePrefix ==
    <<Instruction("LOAD_CONST", StrV("x"), NoneV), Instruction("CALL", StrV("print"), IntV(1)),
      Instruction0("POP")>>

BytecodeTails ==
    << <<Instruction0("POP")>>,
       <<Instruction("LOAD_CONST", IntV(1), NoneV), Instruction0("ADD")>>,
       <<Instruction("LOAD", IntV(MemorySize), NoneV)>>,
       <<Instruction("LOAD", IntV(0), NoneV)>>,
       <<Instruction("JUMP", StrV("nowhere"), NoneV)>>,
       <<Instruction("CALL", StrV("f"), IntV(0))>>,
       <<Instruction("LOAD_CONST", IntV(1), NoneV), Instruction("LOAD_CONST", IntV(2), NoneV),
         Instruction("CALL", StrV("print"), IntV(2))>>,
       <<Instruction("LOAD_CONST", IntV(1), NoneV), Instruction("LOAD_CONST", IntV(0), NoneV),
         Instruction0("DIV")>>,
       <<Instruction("LOAD_CONST", IntV(1), NoneV), Instruction("LOAD_CONST", IntV(0), NoneV),
         Instruction0("MOD")>>,
       <<Instruction0("NOP")>>,
       <<Instruction("LOAD_CONST", NoneV, NoneV), Instruction("LOAD_CONST", IntV(1), NoneV),
         Instruction0("SUB")>>,
       <<Instruction("STORE_PARAM", IntV(0), IntV(0))>>,
       <<Instruction0("RETURN_VALUE")>>,
       <<Instruction("JUMP_IF_FALSE", StrV("nowhere"), NoneV)>>,
       <<Instruction("LOAD_CONST", BoolV(FALSE), NoneV),
         Instruction("JUMP_IF_FALSE", StrV("nowhere"), NoneV)>>,
       <<Instruction("STORE", IntV(0), NoneV)>>,
       <<Instruction0("NEG")>>,
       <<Instruction("LOAD_CONST", IntV(1), NoneV), Instruction("STORE", IntV(MemorySize), NoneV)>>,
       <<Instruction("LABEL", StrV("f"), NoneV), Instruction("LOAD_CONST", IntV(1), NoneV),
         Instruction("CALL", StrV("f"), IntV(2))>>,
       <<Instruction("CALL", StrV("read"), IntV(1))>>,
       <<Instruction("LOAD_CONST", StrV("y"), NoneV), Instruction("CALL", StrV("write"), IntV(0))>>,
       <<Instruction("CALL", StrV("write"), IntV(1))>>,
       <<Instruction0("RETURN"), Instruction0("POP")>>,
       <<Instruction("LOAD_CONST", IntV(1), NoneV), Instruction0("RETURN_VALUE"),
         Instruction0("POP")>>,
       <<Instruction("LOAD_CONST", IntV(7), NoneV), Instruction0("NOT"),
         Instruction("CALL", StrV("print"), IntV(1))>>,
       <<Instruction("LOAD_CONST", IntV(1), NoneV), Instruction("STORE", IntV(-1), NoneV),
         Instruction("LOAD", IntV(MemorySize - 1), NoneV),
         Instruction("CALL", StrV("print"), IntV(1))>>,
       <<Instruction("LOAD", IntV(-1), NoneV)>>,
       <<Instruction("LOAD_CONST", IntV(5), NoneV), Instruction("CALL", StrV("f"), IntV(1)),
         Instruction0("HALT"), Instruction("LABEL", StrV("f"), NoneV),
         Instruction("STORE_PARAM", IntV(0), IntV(MemorySize))>>,
       <<Instruction("LOAD_CONST", IntV(5), NoneV), Instruction("CALL", StrV("f"), IntV(1)),
         Instruction0("HALT"), Instruction("LABEL", StrV("f"), NoneV),
         Instruction("STORE_PARAM", IntV(0), IntV(-1)), Instruction0("RETURN")>> >>

Bytecode(i) == BytecodePrefix \o BytecodeTails[i]

(***************************************************************************)
(* The calls a session makes.  A call is [name, a, b]: a catalogue entry,  *)
(* "Fact" with the argument a, "Family" with the pool statements a and b   *)
(* (0 for none), or "Bytecode" with the index a.                           *)
(***************************************************************************)
MaxN == 5

MaxRuns == 2

MaxSteps == 160

Call(nm, a, b) == [name |-> nm, a |-> a, b |-> b]

CatalogueNames ==
    {"HiSpec", "HiPlain", "Hi", "FactSpec", "FactPlain", "Sub", "Pick", "LabelClash",
     "LabelClashCall", "DivZeroSpec", "DivZeroPlain", "DivZero", "ModZeroLate", "IntDiv",
     "IntArith", "Logic", "Compare", "CompareEq", "Floats", "Read", "ReadNone",
     "FallEnd", "FallInto", "NestedFail", "IfNoElse", "ElifGap", "ForShadow",
     "ParamRedecl", "IfRedecl", "BreakInIf", "BreakAfterInner", "ContinueAfterLoop",
     "CompareMixed", "EqualMixed", "CompareString", "Coerce", "LexError", "ForContinue",
     "WhileContinue", "NestedLoops", "ContinueClash", "SharedName", "ReadMany",
     "IfDeclared", "WhileDeclared", "ReadPlus", "NoShortCircuit", "ElifReturn", "NoMain",
     "BreakOutside", "Undeclared"}

\* the statements a Family program is made of
PoolStatements == <<Pool_1, Pool_2, Pool_3, Pool_4, Pool_5, Pool_6, Pool_7, Pool_8, Pool_9>>

PoolSize == Len(PoolStatements)

Pool(i) == IF i = 0 THEN <<>> ELSE PoolStatements[i]

\* fact as the specification writes it, without the ';', and a main that prints fact(n)
FactSource(n) ==
    <<Word("func"), Word("fact"), Sym("("), Word("int"), Word("n"), Sym(")"), Sym("->"),
      Word("int"), Sym("{"), Word("if"), Sym("("), Word("n"), Sym("<="), Num(<<1>>),
      Sym(")"), Sym("{"), Word("return"), Num(<<1>>), Sym("}"), Word("else"), Sym("{"),
      Word("return"), Word("n"), Sym("*"), Word("fact"), Sym("("), Word("n"), Sym("-"),
      Num(<<1>>), Sym(")"), Sym("}"), Sym("}"), Word("func"), Word("main"), Sym("("),
      Sym(")"), Sym("->"), Word("void"), Sym("{"), Word("print"), Sym("("), Txt(""),
      Sym("+"), Word("fact"), Sym("("), Num(<<n>>), Sym(")"), Sym(")"), Sym("}")>>

Calls ==
    {Call(nm, 0, 0) : nm \in CatalogueNames}
    \cup {Call("Fact", n, 0) : n \in 1..MaxN}
    \cup {Call("Family", a, b) : a \in 1..PoolSize, b \in 0..PoolSize}
    \cup {Call("Family", 0, 0)}
    \cup {Call("Bytecode", i, 0) : i \in 1..Len(BytecodeTails)}

\* the calls a session makes after its first one
FollowUps ==
    {Call("ReadNone", 0, 0), Call("Family", 5, 6), Call("HiPlain", 0, 0),
     Call("Bytecode", 4, 0)}

SourceOf(c) ==
    CASE c.name = "Fact" -> FactSource(c.a)
      [] c.name = "Family" -> FamilyPrefix \o Pool(c.a) \o Pool(c.b) \o <<Sym("}")>>
      [] c.name = "HiSpec" -> Source_HiSpec
      [] c.name = "HiPlain" -> Source_HiPlain
      [] c.name = "Hi" -> Source_Hi
      [] c.name = "FactSpec" -> Source_FactSpec
      [] c.name = "FactPlain" -> Source_FactPlain
      [] c.name = "Sub" -> Source_Sub
      [] c.name = "Pick" -> Source_Pick
      [] c.name = "LabelClash" -> Source_LabelClash
      [] c.name = "LabelClashCall" -> Source_LabelClashCall
      [] c.name = "DivZeroSpec" -> Source_DivZeroSpec
      [] c.name = "DivZeroPlain" -> Source_DivZeroPlain
      [] c.name = "DivZero" -> Source_DivZero
      [] c.name = "ModZeroLate" -> Source_ModZeroLate
      [] c.name = "IntDiv" -> Source_IntDiv
      [] c.name = "IntArith" -> Source_IntArith
      [] c.name = "Logic" -> Source_Logic
      [] c.name = "Compare" -> Source_Compare
      [] c.name = "CompareEq" -> Source_CompareEq
      [] c.name = "Floats" -> Source_Floats
      [] c.name = "Read" -> Source_Read
      [] c.name = "ReadNone" -> Source_ReadNone
      [] c.name = "FallEnd" -> Source_FallEnd
      [] c.name = "FallInto" -> Source_FallInto
      [] c.name = "NestedFail" -> Source_NestedFail
      [] c.name = "IfNoElse" -> Source_IfNoElse
      [] c.name = "ElifGap" -> Source_ElifGap
      [] c.name = "ForShadow" -> Source_ForShadow
      [] c.name = "ParamRedecl" -> Source_ParamRedecl
      [] c.name = "IfRedecl" -> Source_IfRedecl
      [] c.name = "BreakInIf" -> Source_BreakInIf
      [] c.name = "BreakAfterInner" -> Source_BreakAfterInner
      [] c.name = "ContinueAfterLoop" -> Source_ContinueAfterLoop
      [] c.name = "CompareMixed" -> Source_CompareMixed
      [] c.name = "EqualMixed" -> Source_EqualMixed
      [] c.name = "CompareString" -> Source_CompareString
      [] c.name = "Coerce" -> Source_Coerce
      [] c.name = "LexError" -> Source_LexError
      [] c.name = "ForContinue" -> Source_ForContinue
      [] c.name = "WhileContinue" -> Source_WhileContinue
      [] c.name = "NestedLoops" -> Source_NestedLoops
      [] c.name = "ContinueClash" -> Source_ContinueClash
      [] c.name = "SharedName" -> Source_SharedName
      [] c.name = "ReadMany" -> Source_ReadMany
      [] c.name = "IfDeclared" -> Source_IfDeclared
      [] c.name = "WhileDeclared" -> Source_WhileDeclared
      [] c.name = "ReadPlus" -> Source_ReadPlus
      [] c.name = "NoShortCircuit" -> Source_NoShortCircuit
      [] c.name = "ElifReturn" -> Source_ElifReturn
      [] c.name = "NoMain" -> Source_NoMain
      [] c.name = "BreakOutside" -> Source_BreakOutside
      [] c.name = "Undeclared" -> Source_Undeclared
      [] OTHER -> <<>>

\* the input lines of the call, each the sequence of its characters
InputOf(c) ==
    CASE c.name = "Read" -> <<<<"1", "2">>, <<"1", ".", "5">>, <<"x", "7">>>>
      [] c.name = "ReadPlus" -> <<<<"1", "2">>, <<"x", "7">>>>
      [] c.name = "ReadMany" ->
            <<<<"-", "3">>, <<"7", ".">>, <<"1", ".", "2", ".", "3">>, <<"x", "7">>>>
      [] OTHER -> <<>>

(***************************************************************************)
(* The state: one aurumCompiler with its code generator and interpreter,   *)
(* the call in progress and the results of the last compile and execute.   *)
(***************************************************************************)
VARIABLES
    call,          \* the arguments of the call in progress
    pc,            \* "idle", "compiled", "running" (inside execute's loop), "raised"
    runs,          \* calls completed
    steps,         \* instructions executed by the current execute()
    generator,     \* the fields of compiler.code_generator
    compilation,   \* the CompilationResult of the last compile
    interpreter,   \* the fields of compiler.interpreter
    raised,        \* the RuntimeError the last execute() raised
    printed,       \* the lines the print/write calls of this execute() completed with
    entered,       \* the user-function calls of this execute() that have not returned
    result         \* the ExecutionResult of the last execute

vars ==
    <<call, pc, runs, steps, generator, compilation, interpreter, raised, printed, entered,
      result>>

Init ==
    /\ call = Call("", 0, 0)
    /\ pc = "idle"
    /\ runs = 0
    /\ steps = 0
    /\ generator = NewGenerator
    /\ compilation = FailedCompilation(<<>>)
    /\ interpreter = NewInterpreter
    /\ raised = NoError
    /\ printed = <<>>
    /\ entered = <<>>
    /\ result = NoResult

Available == IF runs = 0 THEN Calls ELSE FollowUps

\* compile(source)
Compile ==
    /\ pc = "idle"
    /\ runs < MaxRuns
    /\ \E c \in Available :
          /\ c.name # "Bytecode"
          /\ call' = c
          /\ \E r \in {compile(generator, SourceOf(c))} :
                /\ compilation' = r.result
                /\ generator' = r.generator
    /\ pc' = "compiled"
    /\ UNCHANGED <<runs, steps, interpreter, raised, printed, entered, result>>

\* the caller hands execute() a successful CompilationResult holding a loaded
\* instruction list
UseInstructions ==
    /\ pc = "idle"
    /\ runs < MaxRuns
    /\ \E c \in Available :
          /\ c.name = "Bytecode"
          /\ call' = c
          /\ compilation' = CompilationResult(TRUE, <<>>, Bytecode(c.a),
                                              [nm \in {} |-> 0], [nm \in {} |-> 0])
    /\ pc' = "compiled"
    /\ UNCHANGED <<runs, steps, generator, interpreter, raised, printed, entered, result>>

\* compile_and_run: the compilation failed, execution is cancelled
Cancel ==
    /\ pc = "compiled"
    /\ ~compilation.success
    /\ result' = ExecutionResult(FALSE, <<>>, <<"Ejecucion cancelada por errores de compilacion">>)
    /\ pc' = "idle"
    /\ runs' = runs + 1
    /\ UNCHANGED <<call, steps, generator, compilation, interpreter, raised, printed, entered>>

\* execute(compilation_result) on a failed compilation
ExecuteRefused ==
    /\ pc = "compiled"
    /\ ~compilation.success
    /\ result' = ExecutionResult(FALSE, <<>>, <<"No se puede ejecutar: compilacion fallo">>)
    /\ pc' = "idle"
    /\ runs' = runs + 1
    /\ UNCHANGED <<call, steps, generator, compilation, interpreter, raised, printed, entered>>

\* interpreter.execute() before its loop
execute_start(vm) == [vm EXCEPT !.output = <<>>, !.halted = FALSE, !.instruction_pointer = 0]

\* execute(compilation_result, input_data) up to the loop of interpreter.execute()
Execute ==
    /\ pc = "compiled"
    /\ compilation.success
    /\ LET loaded == load_program(interpreter, compilation.instructions,
                                  compilation.variables, compilation.functions)
           ready == IF InputOf(call) # <<>> THEN set_input(loaded, InputOf(call)) ELSE loaded
       IN interpreter' = execute_start(ready)
    /\ pc' = "running"
    /\ steps' = 0
    /\ raised' = NoError
    /\ printed' = <<>>
    /\ entered' = <<>>
    /\ UNCHANGED <<call, runs, generator, compilation, result>>

Running ==
    /\ pc = "running"
    /\ ~interpreter.halted
    /\ interpreter.instruction_pointer < Len(interpreter.instructions)

instruction == interpreter.instructions[interpreter.instruction_pointer + 1]

\* _execute_instruction dispatches on op
Fetch(op) == Running /\ steps < MaxSteps /\ instruction.op = op

\* the line a print/write call that completes appends
PrintedBy(r) ==
    IF /\ r.exc.type = ""
       /\ instruction.op = "CALL"
       /\ instruction.arg1 \in {StrV("print"), StrV("write")}
    THEN <<Str(Top(interpreter.stack))>>
    ELSE <<>>

\* the calls in progress once the handler returned r: a CALL that pushed a frame
\* adds its index, the operand stack under its arguments and the call stack it
\* found; an instruction that popped a frame ends the last one
EnteredBy(r) ==
    IF r.exc.type # "" THEN entered
    ELSE IF Len(r.vm.call_stack) > Len(interpreter.call_stack)
    THEN Append(entered, [index |-> interpreter.instruction_pointer,
                          stack |-> r.vm.stack,
                          call_stack |-> interpreter.call_stack])
    ELSE IF Len(r.vm.call_stack) < Len(interpreter.call_stack)
    THEN Pop(entered)
    ELSE entered

\* the handler returned r: the loop goes on, or the exception leaves execute()
Complete(r) ==
    /\ interpreter' = r.vm
    /\ raised' = IF r.exc.type = "" THEN raised ELSE Propagated(r.vm, r.exc)
    /\ pc' = IF r.exc.type = "" THEN "running" ELSE "raised"
    /\ steps' = steps + 1
    /\ printed' = printed \o PrintedBy(r)
    /\ entered' = EnteredBy(r)
    /\ UNCHANGED <<call, runs, generator, compilation, result>>

ExecLoadConst == Fetch("LOAD_CONST") /\ Complete(_exec_load_const(interpreter, instruction))

ExecLoad == Fetch("LOAD") /\ Complete(_exec_load(interpreter, instruction))

ExecStore == Fetch("STORE") /\ Complete(_exec_store(interpreter, instruction))

ExecStoreParam == Fetch("STORE_PARAM") /\ Complete(_exec_store_param(interpreter, instruction))

ExecAdd == Fetch("ADD") /\ Complete(_exec_add(interpreter))

ExecSub == Fetch("SUB") /\ Complete(_exec_sub(interpreter))

ExecMul == Fetch("MUL") /\ Complete(_exec_mul(interpreter))

ExecDiv == Fetch("DIV") /\ Complete(_exec_div(interpreter))

ExecMod == Fetch("MOD") /\ Complete(_exec_mod(interpreter))

ExecNeg == Fetch("NEG") /\ Complete(_exec_neg(interpreter))

ExecEq == Fetch("EQ") /\ Complete(_exec_eq(interpreter))

ExecNeq == Fetch("NEQ") /\ Complete(_exec_neq(interpreter))

ExecLt == Fetch("LT") /\ Complete(_exec_lt(interpreter))

ExecGt == Fetch("GT") /\ Complete(_exec_gt(interpreter))

ExecLeq == Fetch("LEQ") /\ Complete(_exec_leq(interpreter))

ExecGeq == Fetch("GEQ") /\ Complete(_exec_geq(interpreter))

ExecAnd == Fetch("AND") /\ Complete(_exec_and(interpreter))

ExecOr == Fetch("OR") /\ Complete(_exec_or(interpreter))

ExecNot == Fetch("NOT") /\ Complete(_exec_not(interpreter))

ExecJump == Fetch("JUMP") /\ Complete(_exec_jump(interpreter, instruction))

ExecJumpIfFalse == Fetch("JUMP_IF_FALSE") /\ Complete(_exec_jump_if_false(interpreter, instruction))

ExecCall == Fetch("CALL") /\ Complete(_exec_call(interpreter, instruction))

ExecReturn == Fetch("RETURN") /\ Complete(_exec_return(interpreter))

ExecReturnValue == Fetch("RETURN_VALUE") /\ Complete(_exec_return_value(interpreter))

ExecEnter == Fetch("ENTER") /\ Complete(_exec_enter(interpreter, instruction))

ExecLeave == Fetch("LEAVE") /\ Complete(_exec_leave(interpreter))

ExecHalt == Fetch("HALT") /\ Complete(_exec_halt(interpreter))

ExecPop == Fetch("POP") /\ Complete(_exec_pop(interpreter))

ExecLabel == Fetch("LABEL") /\ Complete(ExecLabelResult(interpreter))

ExecUnknown ==
    /\ Running
    /\ steps < MaxSteps
    /\ instruction.op \notin Opcodes
    /\ Complete(ExecUnknownResult(interpreter))

\* the loop of interpreter.execute() ends; execute() returns the output
ExecuteReturn ==
    /\ pc = "running"
    /\ ~Running
    /\ result' = ExecutionSuccess(interpreter)
    /\ pc' = "idle"
    /\ runs' = runs + 1
    /\ UNCHANGED <<call, steps, generator, compilation, interpreter, raised, printed, entered>>

\* execute() catches the RuntimeError
ExecuteCatch ==
    /\ pc = "raised"
    /\ result' = ExecutionFailure(interpreter, raised)
    /\ pc' = "idle"
    /\ runs' = runs + 1
    /\ UNCHANGED <<call, steps, generator, compilation, interpreter, raised, printed, entered>>

Next ==
    \/ Compile
    \/ UseInstructions
    \/ Cancel
    \/ ExecuteRefused
    \/ Execute
    \/ ExecLoadConst
    \/ ExecLoad
    \/ ExecStore
    \/ ExecStoreParam
    \/ ExecAdd
    \/ ExecSub
    \/ ExecMul
    \/ ExecDiv
    \/ ExecMod
    \/ ExecNeg
    \/ ExecEq
    \/ ExecNeq
    \/ ExecLt
    \/ ExecGt
    \/ ExecLeq
    \/ ExecGeq
    \/ ExecAnd
    \/ ExecOr
    \/ ExecNot
    \/ ExecJump
    \/ ExecJumpIfFalse
    \/ ExecCall
    \/ ExecReturn
    \/ ExecReturnValue
    \/ ExecEnter
    \/ ExecLeave
    \/ ExecHalt
    \/ ExecPop
    \/ ExecLabel
    \/ ExecUnknown
    \/ ExecuteReturn
    \/ ExecuteCatch

Spec == Init /\ [][Next]_vars

(***************************************************************************)
(* Properties.  Done(nm) is the state in which the call of the catalogue   *)
(* entry nm has returned; previous is the instruction before the one the   *)
(* instruction pointer is at, which in compiled code is the one that was   *)
(* just executed whenever it is not a jump, a call or a return.            *)
(***************************************************************************)
Done(nm) == pc = "idle" /\ runs > 0 /\ call.name = nm

Compiled == call.name # "Bytecode" /\ compilation.success

previous == interpreter.instructions[interpreter.instruction_pointer]

AfterInstruction(ops) ==
    /\ pc = "running"
    /\ interpreter.instruction_pointer \in 1..Len(interpreter.instructions)
    /\ previous.op \in ops

ParseFailure == ~compilation.success /\ compilation.errors = <<"Error sintactico">>

ArgumentTypeFailure ==
    ~compilation.success /\ compilation.errors = SemanticErrors(<<"argument_type">>)

\* the argument expressions of the one call to a user function, as the source of
\* Sub and of Pick writes them: sub(5, 3) and pick(1, "x", 2)
ArgumentsAsWritten ==
    CASE call.name = "Sub" -> <<IntV(5), IntV(3)>>
      [] call.name = "Pick" -> <<IntV(1), StrV("x"), IntV(2)>>
      [] OTHER -> <<>>

\* C1: in Sub and Pick (calls of a user function with 2 and 3 arguments), once
\* STORE_PARAM i addr of the callee's prologue has run, the slot addr holds the
\* value of the i-th argument expression as the source call writes it
C1_ArgumentsInSourceOrder ==
    (call.name \in {"Sub", "Pick"} /\ AfterInstruction({"STORE_PARAM"}))
        => MemGet(interpreter.memory, previous.arg2.n) = ArgumentsAsWritten[previous.arg1.n + 1]

\* the number of values the handler of ins takes off the operand stack
Pops(ins) ==
    CASE ins.op \in {"STORE", "POP", "JUMP_IF_FALSE", "NEG", "NOT", "RETURN_VALUE"} -> 1
      [] ins.op \in {"ADD", "SUB", "MUL", "DIV", "MOD", "EQ", "NEQ", "LT", "GT", "LEQ", "GEQ",
                     "AND", "OR"} -> 2
      [] ins.op = "CALL" ->
            IF ins.arg1 \in {StrV("print"), StrV("write")} THEN 1
            ELSE IF ins.arg1 = StrV("read") THEN 0
            ELSE ins.arg2.n
      [] OTHER -> 0

UnderflowMessages ==
    {"Pila vacia para operacion " \o op : op \in {"STORE", "POP", "JUMP_IF_FALSE", "NEG", "NOT"}}
    \cup {"Pila insuficiente para operacion " \o op :
             op \in {"ADD", "SUB", "MUL", "DIV", "MOD", "EQ", "NEQ", "LT", "GT", "LEQ", "GEQ",
                     "AND", "OR"}}
    \cup {"Argumento faltante para print()", "Argumento faltante para write()",
          "Argumentos insuficientes para funcion", "Valor de retorno faltante"}

\* C2: while the code generated for a source text the analyzer accepted runs, the
\* instruction about to execute finds at least as many values on the operand stack
\* as it pops, and no RuntimeError raised is one of the underflow errors
C2_NoStackUnderflow ==
    Compiled =>
        /\ Running => Len(interpreter.stack) >= Pops(instruction)
        /\ pc = "raised" => raised.message \notin UnderflowMessages

\* C2 witness: the POP of an expression statement is about to take the None that
\* the RETURN of a user function left, the only value on the stack
C2_Witness ==
    /\ Compiled
    /\ Running
    /\ instruction.op = "POP"
    /\ interpreter.stack = <<NoneV>>
    /\ interpreter.instruction_pointer > 0
    /\ previous.op = "CALL"
    /\ previous.arg1 \notin {StrV("print"), StrV("write"), StrV("read")}

LabelIndexes(ins, l) == {i \in 1..Len(ins) : ins[i].op = "LABEL" /\ ins[i].arg1 = l}

\* C3: in the instruction list generated for an accepted source text no LABEL
\* operand occurs twice and every JUMP / JUMP_IF_FALSE operand is the operand of
\* exactly one LABEL
C3_LabelsUnique ==
    (pc = "compiled" /\ Compiled) =>
        LET ins == compilation.instructions
        IN \A i \in 1..Len(ins) :
              /\ ins[i].op = "LABEL" => LabelIndexes(ins, ins[i].arg1) = {i}
              /\ ins[i].op \in {"JUMP", "JUMP_IF_FALSE"}
                    => Cardinality(LabelIndexes(ins, ins[i].arg1)) = 1

\* C4: after generate() returned, functions[f] is the index (from 0) in the
\* returned instruction list of the instruction LABEL f, for every function f
C4_FunctionMapPointsAtLabel ==
    (pc = "compiled" /\ Compiled) =>
        \A f \in DOMAIN compilation.functions :
            LET at == compilation.functions[f] + 1
            IN /\ at \in 1..Len(compilation.instructions)
               /\ compilation.instructions[at].op = "LABEL"
               /\ compilation.instructions[at].arg1 = StrV(f)

\* the source texts of the catalogue whose arithmetic has only int operands
IntegerPrograms == {"IntDiv", "IntArith", "Sub", "Fact", "DivZero", "ModZeroLate"}

\* C5: in a program whose arithmetic has only int operands, what SUB, MUL, DIV and
\* MOD leave on the stack is an int, and what ADD leaves is an int or, one operand
\* being a string, the concatenation
C5_IntegerArithmetic ==
    (Compiled /\ call.name \in IntegerPrograms
              /\ AfterInstruction({"ADD", "SUB", "MUL", "DIV", "MOD"}))
        => /\ interpreter.stack # <<>>
           /\ \/ Top(interpreter.stack).k = "int"
              \/ previous.op = "ADD" /\ Top(interpreter.stack).k = "str"

RECURSIVE Factorial(_)
Factorial(n) == IF n <= 1 THEN 1 ELSE n * Factorial(n - 1)

Succeeded(out) ==
    /\ compilation.success
    /\ compilation.errors = <<>>
    /\ result.success
    /\ result.errors = <<>>
    /\ result.output = out

C8_ErrorCarriesInstructionIndex ==
    pc = "raised" => raised.instruction_pointer = interpreter.instruction_pointer

\* C9: the instruction that raises adds no output; once a RuntimeError is raised
\* the only step is execute() returning, with no instruction run and the
\* interpreter untouched, a result with success = false, an error, and as output
\* the lines of the print/write calls completed before, in order
C9_PartialOutputPreserved ==
    [][/\ (pc = "running" /\ pc' = "raised") =>
              /\ printed' = printed
              /\ get_output(interpreter') = printed
              /\ raised'.raised
       /\ pc = "raised" =>
              /\ pc' = "idle"
              /\ steps' = steps
              /\ interpreter' = interpreter
              /\ ~result'.success
              /\ result'.errors = <<"Error de ejecucion: " \o ErrorText(raised)>>
              /\ result'.output = printed]_vars

\* C9 witness: ModZeroLate has failed in its fifth statement, after print("one")
\* and write("two") completed, and its result carries the two lines
C9_Witness ==
    /\ Done("ModZeroLate")
    /\ raised.raised
    /\ ~result.success
    /\ printed = <<"one", "two">>
    /\ result.output = <<"one", "two">>

DivisionMessages == [DIV |-> "Division por cero", MOD |-> "Division por cero en operacion modulo"]

LabelNames(ins) == {ins[i].arg1 : i \in {j \in 1..Len(ins) : ins[j].op = "LABEL"}}

\* the interpreter as load_program leaves it when execute() is called in this state
Loaded ==
    load_program(interpreter, compilation.instructions, compilation.variables,
                 compilation.functions)

\* C11: whatever state the previous run left the VM in, after load_program every
\* memory cell is None, the operand stack and the call stack are empty, the
\* instruction pointer is 0, the output is empty, the VM is not halted and the
\* label table holds the labels of the new instruction list and no other; the
\* loop of execute() starts from these fields
C11_LoadProgramResets ==
    [][(pc = "compiled" /\ pc' = "running") =>
          /\ DOMAIN Loaded.memory = {}
          /\ Loaded.stack = <<>>
          /\ Loaded.call_stack = <<>>
          /\ Loaded.instruction_pointer = 0
          /\ Loaded.output = <<>>
          /\ ~Loaded.halted
          /\ Loaded.instructions = compilation.instructions
          /\ DOMAIN Loaded.labels = LabelNames(compilation.instructions)
          /\ \A l \in DOMAIN Loaded.labels :
                 LabelIndexes(compilation.instructions, l) # {}
                    /\ Loaded.labels[l] + 1 \in LabelIndexes(compilation.instructions, l)
          /\ interpreter'.memory = Loaded.memory
          /\ interpreter'.stack = <<>>
          /\ interpreter'.call_stack = <<>>
          /\ interpreter'.labels = Loaded.labels
          /\ interpreter'.instruction_pointer = 0
          /\ interpreter'.output = <<>>
          /\ ~interpreter'.halted]_vars

\* C11 witness: a second program has been loaded after NestedFail was aborted by
\* the division error inside d, called from main, with a value on the operand
\* stack, a line put out and two frames on the call stack
C11_Witness ==
    /\ pc = "running"
    /\ steps = 0
    /\ runs = 1
    /\ ~result.success
    /\ result.output = <<"s">>
    /\ result.errors = <<"Error de ejecucion: "
                            \o ErrorText(RuntimeError("Division por cero en operacion modulo",
                                                       DefaultInstructionPointer))>>
    /\ call.name # "NestedFail"
    /\ DOMAIN interpreter.memory = {}
    /\ interpreter.stack = <<>>
    /\ interpreter.call_stack = <<>>
    /\ interpreter.instructions # <<>>

\* the loop of execute() runs one instruction in this step
Executes == Running /\ steps' = steps + 1

TransferOps == {"JUMP", "JUMP_IF_FALSE", "CALL", "RETURN", "RETURN_VALUE"}

AdvancesByOne == interpreter'.instruction_pointer = interpreter.instruction_pointer + 1

\* C12 as the specification states it: every instruction other than a jump, a call
\* or a return, once executed, has advanced the instruction pointer by exactly one
C12_AsStated ==
    [][(Executes /\ pc' = "running" /\ instruction.op \notin TransferOps) => AdvancesByOne]_vars

\* C12: halted is set only by HALT and by RETURN / RETURN_VALUE with an empty call
\* stack; execute() returns only when halted or with the instruction pointer at
\* the end of the list, and leaves its loop otherwise only by a RuntimeError; once
\* halted or at the end no instruction is executed; every instruction that
\* completes, other than a jump, a call, a return and HALT, advances the
\* instruction pointer by exactly one, HALT leaving it where it is
C12_RunningAndHalted ==
    [][/\ (Executes /\ interpreter'.halted) =>
              \/ instruction.op = "HALT"
              \/ instruction.op \in {"RETURN", "RETURN_VALUE"} /\ interpreter.call_stack = <<>>
       /\ (Executes /\ instruction.op = "HALT") =>
              /\ interpreter'.halted
              /\ interpreter'.instruction_pointer = interpreter.instruction_pointer
       /\ (Executes /\ pc' = "running" /\ instruction.op \notin TransferOps \cup {"HALT"}) =>
              AdvancesByOne /\ ~interpreter'.halted
       /\ (pc = "running" /\ pc' # "running") =>
              \/ pc' = "raised" /\ Executes /\ raised'.raised
              \/ /\ pc' = "idle"
                 /\ ~Running
                 /\ result'.success
                 /\ \/ interpreter.halted
                    \/ interpreter.instruction_pointer >= Len(interpreter.instructions)
       /\ (pc = "running" /\ ~Running) =>
              /\ pc' = "idle"
              /\ steps' = steps
              /\ interpreter' = interpreter]_vars

\* C12 witness: the HALT that follows CALL main has run after main returned: the VM
\* is halted with the instruction pointer still at HALT
C12_Witness ==
    /\ Compiled
    /\ pc = "running"
    /\ steps > 0
    /\ interpreter.halted
    /\ interpreter.instruction_pointer = 1
    /\ instruction.op = "HALT"
    /\ interpreter.call_stack = <<>>

\* 'has return' as the specification defines it: a direct return statement, or an
\* if whose then-branch, every elif branch and else-branch, which it must have,
\* each have return
RECURSIVE HasReturn(_)
HasReturn(stmts) ==
    \E i \in 1..Len(stmts) :
        \/ stmts[i].kind = "ReturnStatement"
        \/ /\ stmts[i].kind = "IfStatement"
           /\ stmts[i].hasElse
           /\ HasReturn(stmts[i].then_body)
           /\ \A j \in 1..Len(stmts[i].elif_parts) : HasReturn(stmts[i].elif_parts[j].body)
           /\ HasReturn(stmts[i].else_body)

\* the functions of the source text of the call, parsed
CallFunctions == parse(tokenize(SourceOf(call))).functions

Reported(e) == \E i \in 1..Len(compilation.errors) : compilation.errors[i] = "Error semantico: " \o e

\* C13: the analyzer reports a missing return exactly when a non-void function of
\* the program has a statement list that does not 'have return'
C13_MissingReturn ==
    (pc = "compiled" /\ call.name # "Bytecode" /\ ~ParseFailure) =>
        (Reported("missing_return")
            <=> \E i \in 1..Len(CallFunctions) :
                    /\ CallFunctions[i].return_type # "void"
                    /\ ~HasReturn(CallFunctions[i].body))

\* the names the statement list declares in the scope it is in: if and while
\* bodies share the scope of their statement, a for statement has its own
RECURSIVE ScopeNames(_)
ScopeNames(stmts) ==
    IF stmts = <<>> THEN <<>>
    ELSE LET st == Head(stmts)
             elifs[j \in 0..Len(st.elif_parts)] ==
                 IF j = 0 THEN <<>> ELSE elifs[j - 1] \o ScopeNames(st.elif_parts[j].body)
         IN (CASE st.kind = "VariableDeclaration" -> <<st.name>>
               [] st.kind = "IfStatement" ->
                     ScopeNames(st.then_body) \o elifs[Len(st.elif_parts)]
                     \o ScopeNames(st.else_body)
               [] st.kind = "WhileStatement" -> ScopeNames(st.body)
               [] OTHER -> <<>>)
            \o ScopeNames(Tail(stmts))

Duplicate(names) == \E i, j \in 1..Len(names) : i < j /\ names[i] = names[j]

\* the names declared in the scope of the for statement st
ForScopeNames(st) ==
    (IF st.hasInit THEN ScopeNames(<<st.init>>) ELSE <<>>)
    \o (IF st.hasUpdate THEN ScopeNames(<<st.update>>) ELSE <<>>)
    \o ScopeNames(st.body)

\* some for statement in stmts, at any depth, declares a name twice in its scope
RECURSIVE ForScopeClash(_)
ForScopeClash(stmts) ==
    \E i \in 1..Len(stmts) :
        LET st == stmts[i]
        IN CASE st.kind = "ForStatement" ->
                    Duplicate(ForScopeNames(st)) \/ ForScopeClash(st.body)
             [] st.kind = "WhileStatement" -> ForScopeClash(st.body)
             [] st.kind = "IfStatement" ->
                    \/ ForScopeClash(st.then_body)
                    \/ \E j \in 1..Len(st.elif_parts) : ForScopeClash(st.elif_parts[j].body)
                    \/ ForScopeClash(st.else_body)
             [] OTHER -> FALSE

\* the function declares a name that its scope, or the scope of one of its for
\* statements, already binds
Redeclares(f) ==
    \/ Duplicate([i \in 1..Len(f.parameters) |-> f.parameters[i].name] \o ScopeNames(f.body))
    \/ ForScopeClash(f.body)

\* C14: the analyzer reports a redeclaration exactly when a declaration's name is
\* already bound in its own scope, by an earlier declaration or by a parameter
\* (or two functions have one name); the init declaration of a for statement
\* reusing the name of a variable of the function gets no diagnostic
C14_Redeclaration ==
    (pc = "compiled" /\ call.name # "Bytecode" /\ ~ParseFailure) =>
        /\ Reported("redeclared")
              <=> \/ \E i \in 1..Len(CallFunctions) : Redeclares(CallFunctions[i])
                  \/ Duplicate([i \in 1..Len(CallFunctions) |-> CallFunctions[i].name])
        /\ call.name = "ForShadow" => compilation.success /\ compilation.errors = <<>>
        /\ call.name \in {"ParamRedecl", "IfRedecl"} =>
              compilation.errors = SemanticErrors(<<"redeclared">>)

\* C14 witness: int k = 2 in the body of g(int k) has been reported
C14_Witness ==
    /\ pc = "compiled"
    /\ call.name = "ParamRedecl"
    /\ ~compilation.success
    /\ Reported("redeclared")
    /\ Redeclares(CallFunctions[1])

\* stmts holds a statement of the kind that is in no while or for body
RECURSIVE Stray(_, _)
Stray(kind, stmts) ==
    \E i \in 1..Len(stmts) :
        LET st == stmts[i]
        IN CASE st.kind = kind -> TRUE
             [] st.kind = "IfStatement" ->
                    \/ Stray(kind, st.then_body)
                    \/ \E j \in 1..Len(st.elif_parts) : Stray(kind, st.elif_parts[j].body)
                    \/ Stray(kind, st.else_body)
             [] OTHER -> FALSE

\* C15: the analyzer reports a break (a continue) exactly when a function has one
\* that is in no while or for body: directly in the function body, after a loop
\* has ended, or in an if that is in no loop; in a loop body, also in an if of
\* that body and after an inner loop has ended, it reports none
C15_BreakContinue ==
    (pc = "compiled" /\ call.name # "Bytecode" /\ ~ParseFailure) =>
        /\ Reported("break_outside_loop")
              <=> \E i \in 1..Len(CallFunctions) : Stray("BreakStatement", CallFunctions[i].body)
        /\ Reported("continue_outside_loop")
              <=> \E i \in 1..Len(CallFunctions) :
                      Stray("ContinueStatement", CallFunctions[i].body)
        /\ call.name = "BreakInIf" =>
              compilation.errors = SemanticErrors(<<"break_outside_loop", "continue_outside_loop">>)
        /\ call.name = "BreakAfterInner" => compilation.success /\ compilation.errors = <<>>

\* C15 witness: the continue that follows the while statement of
\* ContinueAfterLoop has been reported
C15_Witness ==
    /\ pc = "compiled"
    /\ call.name = "ContinueAfterLoop"
    /\ compilation.errors = SemanticErrors(<<"continue_outside_loop">>)
    /\ Stray("ContinueStatement", CallFunctions[1].body)

\* C16: a comparison or an equality test of an int and a float operand is accepted
\* without a diagnostic, as one of two operands of the same type is (Compare,
\* CompareEq); one of a string and an int, or of a bool and an int, is reported
C16_ComparisonTypes ==
    (pc = "compiled") =>
        /\ call.name \in {"Compare", "CompareEq", "CompareMixed", "EqualMixed"} =>
              compilation.success /\ compilation.errors = <<>>
        /\ call.name = "CompareString" =>
              compilation.errors = SemanticErrors(<<"compare_types", "compare_types">>)

MemoryOps == {"LOAD", "STORE", "STORE_PARAM"}

\* the address operand of a LOAD, STORE or STORE_PARAM
AddressOf(ins) == IF ins.op = "STORE_PARAM" THEN ins.arg2 ELSE ins.arg1

OutOfRange(v) == IsIntegral(v) /\ (v.n < 0 \/ v.n >= MemorySize)

Unwritten(v) == IsIntegral(v) /\ v.n \in 0..(MemorySize - 1) /\ v.n \notin DOMAIN interpreter.memory

\* C17: a LOAD, STORE or STORE_PARAM whose address is negative or at least the
\* capacity raises and leaves the memory as it was, and a LOAD of a slot of the
\* range that was not written raises and pushes nothing
C17_MemoryRange ==
    [][(Executes /\ instruction.op \in MemoryOps) =>
          /\ OutOfRange(AddressOf(instruction)) =>
                pc' = "raised" /\ interpreter'.memory = interpreter.memory
          /\ (instruction.op = "LOAD" /\ Unwritten(instruction.arg1)) =>
                pc' = "raised" /\ interpreter'.stack = interpreter.stack]_vars

\* the interpreter after the generator's program went through a file
FromFile == load_from_file(interpreter, save_to_file(generator))

\* C18: the instruction list read back from the file save_to_file wrote is the
\* compiled list, operand by operand, and the state a run starts from is the one
\* load_from_file gives with the same input lines: a run of the reloaded program
\* is the run of the compiled one
C18_RoundTrip ==
    [][(pc = "compiled" /\ pc' = "running" /\ Compiled) =>
          /\ FromFile.instructions = compilation.instructions
          /\ interpreter' = execute_start(IF InputOf(call) # <<>>
                                          THEN set_input(FromFile, InputOf(call))
                                          ELSE FromFile)]_vars

\* Floats ran to its end from the state the file gives; its file holds float,
\* bool and string constants and unused operands
C18_Witness ==
    /\ pc = "idle" /\ runs > 0 /\ call.name = "Floats" /\ Compiled /\ Succeeded(<<"3.75", "3.0">>)
    /\ FromFile.instructions = compilation.instructions
    /\ \E i \in 1..Len(compilation.instructions) :
          /\ compilation.instructions[i].arg1.k = "float"
          /\ "." \in {save_to_file(generator).instructions[i].args[1].chars[k] :
                        k \in 1..Len(save_to_file(generator).instructions[i].args[1].chars)}
          /\ save_to_file(generator).instructions[i].args[2].t = "null"

\* the operand pushed first and the one pushed last, of the two on top of the stack
Left == interpreter.stack[Len(interpreter.stack) - 1]

Right == interpreter.stack[Len(interpreter.stack)]

\* the stack with its two topmost values replaced by v
Replaced(v) == Append(SubSeq(interpreter.stack, 1, Len(interpreter.stack) - 2), v)

\* a + b of two numbers: an int when neither is a float
Sum(a, b) ==
    IF a.k = "float" \/ b.k = "float" THEN FloatV(a.n * b.d + b.n * a.d, a.d * b.d)
    ELSE IntV(a.n + b.n)

\* C19: ADD with a string operand replaces its two operands by the text of the
\* one pushed first followed by the text of the one pushed last, and ADD of two
\* numbers by their sum; print("n=" + 5) compiles without a diagnostic and its
\* run puts out n=5
C19_Add ==
    [][/\ (Executes /\ instruction.op = "ADD" /\ Len(interpreter.stack) >= 2) =>
              /\ (Left.k = "str" \/ Right.k = "str") =>
                    /\ pc' = "running"
                    /\ interpreter'.stack = Replaced(StrV(Str(Left) \o Str(Right)))
              /\ (IsNumber(Left) /\ IsNumber(Right)) =>
                    /\ pc' = "running"
                    /\ interpreter'.stack = Replaced(Sum(Left, Right))
       /\ (pc' = "compiled" /\ call'.name = "Coerce") =>
              compilation'.success /\ compilation'.errors = <<>>
       /\ (call.name = "Coerce" /\ pc # "idle" /\ pc' = "idle") =>
              /\ result'.success
              /\ result'.output = <<"n=5", "5=n", "1.5True", "k5">>]_vars

\* C19 witness: the ADD of "n=" and 5 has just pushed n=5
C19_Witness ==
    /\ call.name = "Coerce"
    /\ AfterInstruction({"ADD"})
    /\ interpreter.output = <<>>
    /\ interpreter.stack = <<StrV("n=5")>>

\* lexing, parsing or the semantic analysis of the source text reports an error
EarlyFailure(lexemes) ==
    \/ LexerError(lexemes)
    \/ ~parse(tokenize(lexemes)).ok
    \/ analyze(parse(tokenize(lexemes)).functions) # <<>>

\* C20: compile() of a text whose lexing, parsing or analysis reports an error
\* leaves the code generator as it was and returns success = false with the
\* errors and no instructions, and of any other text runs the code generation;
\* from a failed compilation the only step is the refusal: the interpreter is
\* untouched, no instruction runs, the result fails with an empty output
C20_Phases ==
    [][/\ (pc = "idle" /\ pc' = "compiled" /\ call'.name # "Bytecode") =>
              IF EarlyFailure(SourceOf(call'))
              THEN /\ generator' = generator
                   /\ ~compilation'.success
                   /\ compilation'.errors # <<>>
                   /\ compilation'.instructions = <<>>
              ELSE generator' = generate(generator,
                                         parse(tokenize(SourceOf(call'))).functions)
       /\ (pc = "compiled" /\ ~compilation.success) =>
              /\ pc' = "idle"
              /\ interpreter' = interpreter
              /\ steps' = steps
              /\ printed' = printed
              /\ ~result'.success
              /\ result'.output = <<>>]_vars

\* C20 witness: after a program that ran, a text with a diagnostic was compiled and
\* refused: the generator and the interpreter still hold the first program
C20_Witness ==
    /\ Done("HiPlain")
    /\ runs > 1
    /\ ArgumentTypeFailure
    /\ compilation.instructions = <<>>
    /\ generator.instructions # <<>>
    /\ interpreter.instructions = generator.instructions
    /\ interpreter.output # <<>>
    /\ ~result.success
    /\ result.output = <<>>

\* the value a RETURN or RETURN_VALUE hands to the caller
Returned == IF instruction.op = "RETURN_VALUE" THEN Top(interpreter.stack) ELSE NoneV

\* C21: a RETURN or RETURN_VALUE that ends a call goes to the instruction after
\* the CALL, leaves the call stack as the CALL found it and the operand stack as it
\* was under the arguments, with the one value returned on top
C21_CallNeutral ==
    [][(/\ Executes
        /\ instruction.op \in {"RETURN", "RETURN_VALUE"}
        /\ interpreter.call_stack # <<>>
        /\ pc' = "running") =>
          /\ entered # <<>>
          /\ interpreter'.instruction_pointer = Top(entered).index + 1
          /\ interpreter'.call_stack = Top(entered).call_stack
          /\ interpreter'.stack = Append(Top(entered).stack, Returned)]_vars

\* C21 witness: a call of fact made by fact has just returned its value into the
\* caller's multiplication, main's call and the caller's own still in progress
C21_Witness ==
    /\ call.name = "Fact"
    /\ AfterInstruction({"CALL"})
    /\ previous.arg1 = StrV("fact")
    /\ Len(entered) >= 2
    /\ Len(interpreter.call_stack) = Len(entered)
    /\ Top(interpreter.call_stack).function_name = StrV("fact")
    /\ Len(interpreter.stack) >= 2
    /\ Top(interpreter.stack).k = "int"

\* C22: continue in a for body goes on with the update clause and then the
\* condition (ForContinue puts out 0, 2), continue in a while body with the
\* condition (WhileContinue: 1, 3), break leaves the loop, and after an inner loop
\* has ended continue and break are those of the outer loop (NestedLoops: 2,
\* BreakAfterInner: 2); so the for loop of ContinueClash puts out 1
C22_LoopJumps ==
    /\ Done("ForContinue") => Succeeded(<<"0", "2", "end">>)
    /\ Done("WhileContinue") => Succeeded(<<"1", "3", "end">>)
    /\ Done("NestedLoops") => Succeeded(<<"2", "end">>)
    /\ Done("BreakAfterInner") => Succeeded(<<"2">>)
    /\ Done("ContinueClash") => Succeeded(<<"1", "end">>)

\* the names the statements declare, in the order the generator meets them
RECURSIVE Declarations(_)
Declarations(stmts) ==
    IF stmts = <<>> THEN <<>>
    ELSE LET st == Head(stmts)
             elifs[j \in 0..Len(st.elif_parts)] ==
                 IF j = 0 THEN <<>> ELSE elifs[j - 1] \o Declarations(st.elif_parts[j].body)
         IN (CASE st.kind = "VariableDeclaration" -> <<st.name>>
               [] st.kind = "IfStatement" ->
                     Declarations(st.then_body) \o elifs[Len(st.elif_parts)]
                     \o Declarations(st.else_body)
               [] st.kind = "WhileStatement" -> Declarations(st.body)
               [] st.kind = "ForStatement" ->
                     (IF st.hasInit THEN Declarations(<<st.init>>) ELSE <<>>)
                     \o Declarations(st.body)
                     \o (IF st.hasUpdate THEN Declarations(<<st.update>>) ELSE <<>>)
               [] OTHER -> <<>>)
            \o Declarations(Tail(stmts))

\* the parameters and declared names of the functions fs[1..n], in order
RECURSIVE Allocations(_, _)
Allocations(fs, n) ==
    IF n = 0 THEN <<>>
    ELSE Allocations(fs, n - 1)
         \o [i \in 1..Len(fs[n].parameters) |-> fs[n].parameters[i].name]
         \o Declarations(fs[n].body)

\* names without the repetitions of a name already met
RECURSIVE Distinct(_)
Distinct(names) ==
    IF names = <<>> THEN <<>>
    ELSE LET before == Distinct(SubSeq(names, 1, Len(names) - 1))
         IN IF \E i \in 1..Len(before) : before[i] = names[Len(names)] THEN before
            ELSE Append(before, names[Len(names)])

\* C23: the variable map of a compiled program gives the k distinct names of
\* parameters and declared variables, whatever function they are in, the
\* addresses 0..k-1 in the order the names are first met; the memory counter is
\* k and every LOAD, STORE and STORE_PARAM of the program has one of these
\* addresses
C23_VariableAddresses ==
    (pc = "compiled" /\ Compiled) =>
        LET seen == Distinct(Allocations(CallFunctions, Len(CallFunctions)))
        IN /\ DOMAIN compilation.variables = {seen[i] : i \in 1..Len(seen)}
           /\ \A i \in 1..Len(seen) : compilation.variables[seen[i]] = i - 1
           /\ generator.memory_counter = Len(seen)
           /\ \A i \in 1..Len(compilation.instructions) :
                 compilation.instructions[i].op \in MemoryOps =>
                     AddressOf(compilation.instructions[i]).n \in 0..(Len(seen) - 1)

\* C23 witness: x is a parameter of g and a variable of main, y a variable of main
\* and of its for statement: three addresses for five declarations
C23_Witness ==
    /\ pc = "compiled" /\ Compiled
    /\ call.name = "SharedName"
    /\ Len(Allocations(CallFunctions, Len(CallFunctions))) = 5
    /\ compilation.variables = ("x" :> 0) @@ ("y" :> 1) @@ ("z" :> 2)

\* what read() pushes for the input lines of Read and ReadMany: 12 and -3 are
\* integers, 1.5 and 7. floats, x7 and 1.2.3 no numbers
ReadValue(line) ==
    CASE line = <<"1", "2">> -> IntV(12)
      [] line = <<"-", "3">> -> IntV(-3)
      [] line = <<"1", ".", "5">> -> FloatV(3, 2)
      [] line = <<"7", ".">> -> FloatV(7, 1)
      [] OTHER -> StrV(Join(line))

\* C24: CALL read 0 pushes one value and leaves the rest of the operand stack and
\* the call stack alone: the first remaining input line, which it removes, as a
\* number if it is one and else as its text, and the empty string when no line
\* remains
C24_Read ==
    [][(Executes /\ instruction.op = "CALL" /\ instruction.arg1 = StrV("read")
        /\ instruction.arg2 = IntV(0)) =>
          /\ pc' = "running"
          /\ interpreter'.call_stack = interpreter.call_stack
          /\ interpreter'.output = interpreter.output
          /\ IF interpreter.input_buffer # <<>>
             THEN /\ interpreter'.input_buffer = Tail(interpreter.input_buffer)
                  /\ interpreter'.stack
                        = Append(interpreter.stack, ReadValue(Head(interpreter.input_buffer)))
             ELSE /\ interpreter'.input_buffer = <<>>
                  /\ interpreter'.stack = Append(interpreter.stack, StrV(""))]_vars

\* C24 witness: the four lines were read in order and two more reads found none
C24_Witness ==
    /\ Done("ReadMany")
    /\ Succeeded(<<"got -3", "got 7.0", "got 1.2.3", "got x7", "got ">>)
    /\ interpreter.input_buffer = <<>>

\* the function the innermost activation is of is declared to return a value
NonVoidActivation ==
    /\ interpreter.call_stack # <<>>
    /\ \E i \in 1..Len(CallFunctions) :
          /\ StrV(CallFunctions[i].name) = Top(interpreter.call_stack).function_name
          /\ CallFunctions[i].return_type # "void"

\* C25: in a program compiled without diagnostics an activation of a function
\* that returns a value never executes LEAVE, and is ended by RETURN_VALUE only
C25_NonVoidEndsByReturnValue ==
    [][(Executes /\ Compiled /\ compilation.errors = <<>> /\ NonVoidActivation) =>
          /\ instruction.op # "LEAVE"
          /\ Len(interpreter'.call_stack) < Len(interpreter.call_stack) =>
                instruction.op = "RETURN_VALUE"]_vars

\* C26: in a program compiled without diagnostics every LOAD that is executed
\* reads a slot that a STORE or STORE_PARAM of this execution has written
C26_LoadAfterStore ==
    [][(Executes /\ Compiled /\ compilation.errors = <<>> /\ instruction.op = "LOAD") =>
          ~Unwritten(instruction.arg1)]_vars

\* C27: execute() called without input lines starts its program on an empty input
\* queue, whatever the calls before it were given, so the one read() of ReadNone
\* yields the empty string
C27_InputOfThisCall ==
    [][/\ (pc = "compiled" /\ pc' = "running" /\ InputOf(call) = <<>>) =>
              interpreter'.input_buffer = <<>>
       /\ (call.name = "ReadNone" /\ pc = "running" /\ pc' = "idle") =>
              result'.output = <<"got ">>]_vars

\* C28: the x of the for header of ForShadow is another variable than the x of
\* main: the loop puts out 0 and 1, and the x read after the loop is the 7 it was
\* before the loop
C28_ForVariableOwnStorage == Done("ForShadow") => Succeeded(<<"0", "1", "7">>)

\* C29: in a program compiled without diagnostics the value read() leaves on the
\* stack is a string, as its declared type says, so read() + 1 is the line read
\* followed by 1: ReadPlus, given the lines 12 and x7, puts out 121 and x71
C29_StaticTypeIsRuntimeKind ==
    [][/\ (Executes /\ Compiled /\ compilation.errors = <<>> /\ instruction.op = "CALL"
           /\ instruction.arg1 = StrV("read") /\ pc' = "running") =>
              Top(interpreter'.stack).k = "str"
       /\ (call.name = "ReadPlus" /\ pc = "running" /\ pc' = "idle") =>
              result'.output = <<"121", "x71">>]_vars

\* C30: both operands of and / or are evaluated, the left one first, whatever
\* the left one is: in NoShortCircuit t("l") and t("r") prints l then r,
\* false and t("a") prints a, true or t("b") prints b, and true or 1 / 0 == 1
\* fails with the division error before anything of its if is printed
C30_NoShortCircuit ==
    [][/\ (pc' = "compiled" /\ call'.name = "NoShortCircuit") =>
              compilation'.success /\ compilation'.errors = <<>>
       /\ (call.name = "NoShortCircuit" /\ pc # "idle" /\ pc' = "idle") =>
              /\ pc = "raised"
              /\ raised.message = "Division por cero"
              /\ ~result'.success
              /\ result'.output = <<"l", "r", "w", "a", "b", "y">>
       /\ (Executes /\ Compiled /\ instruction.op \in {"AND", "OR"}) =>
              /\ Len(interpreter.stack) >= 2
              /\ pc' = "running"
              /\ Len(interpreter'.stack) = Len(interpreter.stack) - 1]_vars

\* C30 witness: the run of NoShortCircuit has ended in the division error of a
\* right operand whose left operand is true, after the prints of the right
\* operands of false and .. and of true or ..
C30_Witness ==
    /\ Done("NoShortCircuit")
    /\ ~result.success
    /\ result.output = <<"l", "r", "w", "a", "b", "y">>
    /\ raised.message = "Division por cero"

====
